---- MODULE Spec2Model ----
(***************************************************************************)
(* Model of the metavariable layer of the Substrait validator's type       *)
(* expression solver: metavalue sets (metavalues/set.rs), data type        *)
(* patterns (metavalues/data_type.rs), metavariable data blocks            *)
(* (metavars/data.rs) and references (metavars/reference.rs); and of the   *)
(* documentation tree the validator builds and iterates over (tree.rs).    *)
(***************************************************************************)
EXTENDS Integers, Sequences, FiniteSets, TLC

VARIABLES
    reference,  \* Reference.key and Reference.description of every reference
    refAlias,   \* Reference.alias of every reference (NoAlias: unbound)
    aliasData,  \* the data block every alias block refers to
    data,       \* the Data struct of every data block
    applied,    \* per data block, the constraints constrain() applied to it
    submitted,  \* per reference, the constraints constrained through it
    equated,    \* the pairs of references constrain_equal has merged
    panicked,   \* an assert!/expect of the code failed
    lastOp,     \* the operation that produced this state and its outcome
    coversLog,  \* the first definite answer Data::covers gave, and to whom
    solver,     \* the solver loop: its phase, worklist, outcome and report
    call,       \* the constrain_equal call in progress: position and borrows
    context,    \* tree.rs: the parsing context of the root node
    walk        \* tree.rs: the iterators over the output tree

vars == <<reference, refAlias, aliasData, data, applied, submitted, equated,
          panicked, lastOp, coversLog, solver, call, context, walk>>

(***************************************************************************)
(* Bounds of the model.                                                    *)
(***************************************************************************)
\* Integer metavalues range over 0..MaxInt (stands in for i64).
MaxInt == 4
\* Total number of constraints recorded over all data blocks.
MaxConstraints == 2

IntUniverse == 0..MaxInt

(***************************************************************************)
(* Option<bool> and the Boolean set enum.                                  *)
(***************************************************************************)
SomeTrue == "Some(true)"
SomeFalse == "Some(false)"
None == "None"
All == "All"

OptBool(b) == IF b THEN SomeTrue ELSE SomeFalse

NoRef == "NoRef"
NoAlias == 0
NoValue == [kind |-> "None"]

BoolValue(b) == [kind |-> "Boolean", b |-> b]
IntValue(i) == [kind |-> "Integer", i |-> i]
TypeValue(t) == [kind |-> "DataType", d |-> t]

(***************************************************************************)
(* metavalues::set::Boolean                                                *)
(***************************************************************************)
Boolean_contains(s, value) ==
    CASE s = All -> TRUE
      [] s = None -> FALSE
      [] OTHER -> s = OptBool(value)

Boolean_superset_of(s, other) ==
    CASE s = All -> TRUE
      [] other = All -> FALSE
      [] other = None -> TRUE
      [] s = None -> FALSE
      [] OTHER -> s = other

Boolean_intersects_with(s, other) ==
    CASE s = None -> FALSE
      [] other = None -> FALSE
      [] s = All -> TRUE
      [] other = All -> TRUE
      [] OTHER -> s = other

Boolean_is_empty(s) == s = None

Boolean_value(s) ==
    IF s \in {SomeTrue, SomeFalse} THEN BoolValue(s = SomeTrue) ELSE NoValue

\* Boolean::constrain is a todo!() stub; Within(S) intersects (spec 4.E).
Boolean_intersect(s, other) ==
    CASE s = None \/ other = None -> None
      [] s = All -> other
      [] other = All -> s
      [] OTHER -> IF s = other THEN s ELSE None

(***************************************************************************)
(* metavalues::set::Integer, over util::integer_set::IntegerSet (a set of  *)
(* integers; the interval representation is not part of this repository    *)
(* excerpt).                                                               *)
(***************************************************************************)
Integer_full == IntUniverse
Integer_empty == {}
Integer_contains(s, value) == value \in s
Integer_superset_of(s, other) == (other \ s) = {}
Integer_intersects_with(s, other) == (s \cap other) # {}
Integer_is_empty(s) == s = {}
Integer_value(s) ==
    IF Cardinality(s) = 1 THEN IntValue(CHOOSE i \in s : TRUE) ELSE NoValue

(***************************************************************************)
(* Heap: a Reference holds an optional alias block (refAlias), an alias    *)
(* block holds its data block (aliasData), and data[d] is a Data struct.   *)
(* The operators below read a heap record h so that they can be evaluated  *)
(* on the current heap and on the heap an operation would produce.         *)
(***************************************************************************)
Heap == [refAlias |-> refAlias, aliasData |-> aliasData, data |-> data]

\* output::data_type::DataType accessors used by Pattern::matches.
ConcreteType(class, nullable, variation, parameters) ==
    [class |-> class, nullable |-> nullable, variation |-> variation,
     parameters |-> parameters]

\* metavalues::data_type::Pattern
Pattern(class, nullable, variation, specified, list) ==
    [class |-> class, nullable |-> nullable, variation |-> variation,
     parameters |-> [specified |-> specified, list |-> list]]

\* metavalues::data_type::Parameter
Parameter(name, value) == [name |-> name, value |-> value]

\* metavalues::set::DataType
DataType_full == [all |-> TRUE, pats |-> <<>>]
DataType_empty == [all |-> FALSE, pats |-> <<>>]
DataType_some(pats) == [all |-> FALSE, pats |-> pats]

DataType_is_empty(s) == ~s.all /\ Len(s.pats) = 0

\* metavalues::set::Set
Set_full ==
    [booleans |-> All, integers |-> Integer_full, data_types |-> DataType_full]

Set_empty ==
    [booleans |-> None, integers |-> Integer_empty,
     data_types |-> DataType_empty]

Set_from_boolean(x) ==
    [booleans |-> x, integers |-> Integer_empty, data_types |-> DataType_empty]

Set_from_integer(x) ==
    [booleans |-> None, integers |-> x, data_types |-> DataType_empty]

Set_from_data_type(x) ==
    [booleans |-> None, integers |-> Integer_empty, data_types |-> x]

Set_is_empty(s) ==
    /\ Boolean_is_empty(s.booleans)
    /\ Integer_is_empty(s.integers)
    /\ DataType_is_empty(s.data_types)

RECURSIVE Set_value(_, _)
RECURSIVE Set_contains(_, _, _)
RECURSIVE Set_superset_of(_, _, _)
RECURSIVE Set_intersects_with(_, _, _)

\* Data::value
Data_value(h, d) == Set_value(h, h.data[d].values)

\* Data::matches
Data_matches(h, d, value) == Set_contains(h, h.data[d].values, value)

\* Data::covers answering from the set-level result alone, without looking
\* at the complete flags.
Data_covers_eager(h, self, other) ==
    Set_superset_of(h, h.data[self].values, h.data[other].values)

\* Data::covers
Data_covers(h, self, other) ==
    LET sup == Set_superset_of(h, h.data[self].values, h.data[other].values)
    IN  CASE sup = SomeTrue ->
               IF h.data[self].complete THEN SomeTrue ELSE None
          [] sup = SomeFalse ->
               IF \/ h.data[other].complete
                  \/ ~Set_intersects_with(h, h.data[self].values,
                                          h.data[other].values)
               THEN SomeFalse
               ELSE None
          [] OTHER -> None

\* Reference::value
Reference_value(h, r) ==
    IF h.refAlias[r] = NoAlias
    THEN NoValue
    ELSE Data_value(h, h.aliasData[h.refAlias[r]])

\* Reference::matches
Reference_matches(h, r, value) ==
    IF h.refAlias[r] = NoAlias
    THEN TRUE
    ELSE Data_matches(h, h.aliasData[h.refAlias[r]], value)

\* Reference::covers (called by Pattern::covers): delegates to the data
\* blocks of the two references.
Reference_covers(h, r, other) ==
    IF h.refAlias[r] = NoAlias \/ h.refAlias[other] = NoAlias
    THEN None
    ELSE Data_covers(h, h.aliasData[h.refAlias[r]],
                     h.aliasData[h.refAlias[other]])

\* Value sets of two references intersect (used by Pattern::intersects_with).
Reference_intersects_with(h, r, other) ==
    IF h.refAlias[r] = NoAlias \/ h.refAlias[other] = NoAlias
    THEN TRUE
    ELSE Set_intersects_with(h, h.data[h.aliasData[h.refAlias[r]]].values,
                             h.data[h.aliasData[h.refAlias[other]]].values)

\* Value::as_boolean applied to Reference::value
NullableValue(h, p) ==
    IF p.nullable = NoRef
    THEN NoValue
    ELSE LET v == Reference_value(h, p.nullable)
         IN  IF v.kind = "Boolean" THEN v ELSE NoValue

\* Parameter::matches
Parameter_matches(h, param, concrete) ==
    Reference_matches(h, param.value, IntValue(concrete.v))

\* Pattern::matches comparing the parameter packs over their common prefix,
\* without the length check.
Pattern_matches_prefix(h, p, concrete) ==
    IF p.class # concrete.class THEN FALSE
    ELSE IF /\ NullableValue(h, p).kind = "Boolean"
            /\ NullableValue(h, p).b # concrete.nullable THEN FALSE
    ELSE IF p.variation # "unspecified" /\ p.variation # concrete.variation
         THEN FALSE
    ELSE IF p.parameters.specified
         THEN \A i \in (1..Len(p.parameters.list))
                       \cap (1..Len(concrete.parameters)) :
                Parameter_matches(h, p.parameters.list[i],
                                  concrete.parameters[i])
         ELSE TRUE

\* Pattern::matches
Pattern_matches(h, p, concrete) ==
    IF p.class # concrete.class THEN FALSE
    ELSE IF /\ NullableValue(h, p).kind = "Boolean"
            /\ NullableValue(h, p).b # concrete.nullable THEN FALSE
    ELSE IF p.variation # "unspecified" /\ p.variation # concrete.variation
         THEN FALSE
    ELSE IF p.parameters.specified
         THEN IF Len(p.parameters.list) # Len(concrete.parameters)
              THEN FALSE
              ELSE \A i \in 1..Len(p.parameters.list) :
                     Parameter_matches(h, p.parameters.list[i],
                                       concrete.parameters[i])
         ELSE TRUE

\* First element-wise covers result that is not Some(true), else Some(true).
RECURSIVE ParametersCover(_, _, _, _)
ParametersCover(h, xs, ys, i) ==
    IF i > Len(xs) \/ i > Len(ys) THEN SomeTrue
    ELSE LET covers == Reference_covers(h, xs[i].value, ys[i].value)
         IN  IF covers # SomeTrue THEN covers
             ELSE ParametersCover(h, xs, ys, i + 1)

\* Pattern::covers
Pattern_covers(h, self, other) ==
    LET nullability ==
            IF self.nullable # NoRef
            THEN IF other.nullable # NoRef
                 THEN Reference_covers(h, self.nullable, other.nullable)
                 ELSE SomeFalse
            ELSE SomeTrue
        variation ==
            IF self.variation # "unspecified"
            THEN IF other.variation # "unspecified"
                 THEN OptBool(self.variation = other.variation)
                 ELSE SomeFalse
            ELSE SomeTrue
        parameters ==
            IF self.parameters.specified
            THEN IF other.parameters.specified
                 THEN IF Len(self.parameters.list) # Len(other.parameters.list)
                      THEN SomeFalse
                      ELSE ParametersCover(h, self.parameters.list,
                                           other.parameters.list, 1)
                 ELSE SomeFalse
            ELSE SomeTrue
    IN  IF self.class # other.class THEN SomeFalse
        ELSE IF nullability # SomeTrue THEN nullability
        ELSE IF variation # SomeTrue THEN variation
        ELSE parameters

\* Pattern::intersects_with (spec 4.B): always a definite boolean.
Pattern_intersects_with(h, self, other) ==
    /\ self.class = other.class
    /\ \/ self.nullable = NoRef
       \/ other.nullable = NoRef
       \/ Reference_intersects_with(h, self.nullable, other.nullable)
    /\ \/ self.variation = "unspecified"
       \/ other.variation = "unspecified"
       \/ self.variation = other.variation
    /\ \/ ~self.parameters.specified
       \/ ~other.parameters.specified
       \/ /\ Len(self.parameters.list) = Len(other.parameters.list)
          /\ \A i \in 1..Len(self.parameters.list) :
               Reference_intersects_with(h, self.parameters.list[i].value,
                                         other.parameters.list[i].value)

\* Pattern::make_concrete (spec 4.B, Concretize); NoValue stands for none.
Pattern_make_concrete(h, p) ==
    IF /\ NullableValue(h, p).kind = "Boolean"
       /\ p.variation # "unspecified"
       /\ p.parameters.specified
       /\ \A i \in 1..Len(p.parameters.list) :
            Reference_value(h, p.parameters.list[i].value).kind = "Integer"
    THEN TypeValue(ConcreteType(p.class, NullableValue(h, p).b, p.variation,
            [i \in 1..Len(p.parameters.list) |->
               [kind |-> "Unsigned",
                v |-> Reference_value(h, p.parameters.list[i].value).i]]))
    ELSE NoValue

\* DataType::contains
DataType_contains(h, s, value) ==
    IF s.all THEN TRUE
    ELSE \E i \in 1..Len(s.pats) : Pattern_matches(h, s.pats[i], value)

\* The loop over x in DataType::superset_of for one y, from index i on with
\* num_intersections = num; early is the `return None` of the loop.
RECURSIVE ScanX(_, _, _, _, _)
ScanX(h, x, y, i, num) ==
    IF i > Len(x)
    THEN [early |-> FALSE, covered |-> FALSE, num_intersections |-> num]
    ELSE IF Pattern_intersects_with(h, x[i], y)
         THEN LET covers == Pattern_covers(h, x[i], y)
              IN  CASE covers = SomeTrue ->
                         [early |-> FALSE, covered |-> TRUE,
                          num_intersections |-> num + 1]
                    [] covers = SomeFalse -> ScanX(h, x, y, i + 1, num + 1)
                    [] OTHER ->
                         [early |-> TRUE, covered |-> FALSE,
                          num_intersections |-> num + 1]
         ELSE ScanX(h, x, y, i + 1, num)

\* The loop over y in DataType::superset_of, from index j on.
RECURSIVE ScanY(_, _, _, _, _)
ScanY(h, x, y, j, too_complex) ==
    IF j > Len(y)
    THEN IF too_complex THEN None ELSE SomeTrue
    ELSE LET r == ScanX(h, x, y[j], 1, 0)
         IN  IF r.early THEN None
             ELSE IF ~r.covered THEN SomeFalse
             ELSE ScanY(h, x, y, j + 1,
                        too_complex \/ r.num_intersections > 1)

\* DataType::superset_of
DataType_superset_of(h, s, other) ==
    CASE s.all -> SomeTrue
      [] other.all -> SomeFalse
      [] OTHER ->
           IF Len(other.pats) = 0 THEN SomeTrue
           ELSE IF Len(s.pats) = 0 THEN SomeFalse
           ELSE ScanY(h, s.pats, other.pats, 1, FALSE)

\* DataType::intersects_with
DataType_intersects_with(h, s, other) ==
    CASE s.all -> ~DataType_is_empty(other)
      [] other.all -> ~DataType_is_empty(other)
      [] OTHER ->
           \E i \in 1..Len(s.pats) : \E j \in 1..Len(other.pats) :
              Pattern_intersects_with(h, s.pats[i], other.pats[j])

\* DataType::value
DataType_value(h, s) ==
    IF ~s.all /\ Len(s.pats) = 1
    THEN Pattern_make_concrete(h, s.pats[1])
    ELSE NoValue

\* Set::contains
Set_contains(h, s, value) ==
    CASE value.kind = "Boolean" -> Boolean_contains(s.booleans, value.b)
      [] value.kind = "Integer" -> Integer_contains(s.integers, value.i)
      [] OTHER -> DataType_contains(h, s.data_types, value.d)

\* Set::superset_of
Set_superset_of(h, s, other) ==
    LET result == DataType_superset_of(h, s.data_types, other.data_types)
    IN  IF result = None THEN None
        ELSE OptBool(/\ result = SomeTrue
                     /\ Boolean_superset_of(s.booleans, other.booleans)
                     /\ Integer_superset_of(s.integers, other.integers))

\* Set::intersects_with
Set_intersects_with(h, s, other) ==
    \/ Boolean_intersects_with(s.booleans, other.booleans)
    \/ Integer_intersects_with(s.integers, other.integers)
    \/ DataType_intersects_with(h, s.data_types, other.data_types)

\* Set::value
Set_value(h, s) ==
    LET b == Boolean_is_empty(s.booleans)
        i == Integer_is_empty(s.integers)
        d == DataType_is_empty(s.data_types)
    IN  CASE ~b /\ i /\ d -> Boolean_value(s.booleans)
          [] b /\ ~i /\ d -> Integer_value(s.integers)
          [] b /\ i /\ ~d -> DataType_value(h, s.data_types)
          [] OTHER -> NoValue

(***************************************************************************)
(* Constraints and Set::constrain.                                         *)
(***************************************************************************)
\* constraints::constraint::Constraint with ConstraintType::Within
Within(set, reason) ==
    [data |-> [type |-> "Within", set |-> set], reason |-> reason]

\* constraints::constraint::Constraint with ConstraintType::Pattern
PatternConstraint(pattern, reason) ==
    [data |-> [type |-> "Pattern",
               set |-> Set_from_data_type(DataType_some(<<pattern>>))],
     reason |-> reason]

\* constraints::constraint::Constraint with ConstraintType::Function: the
\* value equals function(arguments).  It admits every value until the solver
\* evaluates the function (spec 4.E).
FunctionConstraint(function, arguments, reason) ==
    [data |-> [type |-> "Function", function |-> function,
               arguments |-> arguments, set |-> Set_full],
     reason |-> reason]

\* The set of values a constraint admits (spec 3: Within(S) admits S,
\* Pattern(P) admits the data types matching P).
Admissible(constraint) == constraint.data.set

Refs == {"A", "B", "C", "N"}
RefOrder == <<NoRef, "A", "B", "C", "N">>
Classes == <<"i32", "varchar">>
Variations == <<"unspecified", "base", "v1">>

IndexOf(seq, x) == CHOOSE i \in 1..Len(seq) : seq[i] = x

\* Position of a pattern in the canonical order of a pattern list.
PatternRank(p) ==
    LET params == IF ~p.parameters.specified THEN 0
                  ELSE IF Len(p.parameters.list) = 0 THEN 1
                  ELSE 1 + IndexOf(RefOrder, p.parameters.list[1].value)
    IN  ((IndexOf(Classes, p.class) * 8 + IndexOf(RefOrder, p.nullable)) * 4
         + IndexOf(Variations, p.variation)) * 8 + params

RECURSIVE SortPatterns(_)
SortPatterns(S) ==
    IF S = {} THEN <<>>
    ELSE LET p == CHOOSE x \in S : \A y \in S : PatternRank(x) <= PatternRank(y)
         IN  <<p>> \o SortPatterns(S \ {p})

\* Two patterns have a common refinement, field by field (spec 4.B).
PatternsCompatible(x, y) ==
    /\ x.class = y.class
    /\ x.nullable = NoRef \/ y.nullable = NoRef \/ x.nullable = y.nullable
    /\ \/ x.variation = "unspecified"
       \/ y.variation = "unspecified"
       \/ x.variation = y.variation
    /\ \/ ~x.parameters.specified
       \/ ~y.parameters.specified
       \/ x.parameters.list = y.parameters.list

\* The common refinement of two compatible patterns.
PatternIntersect(x, y) ==
    [class |-> x.class,
     nullable |-> IF x.nullable = NoRef THEN y.nullable ELSE x.nullable,
     variation |-> IF x.variation = "unspecified" THEN y.variation
                   ELSE x.variation,
     parameters |-> IF x.parameters.specified THEN x.parameters
                    ELSE y.parameters]

\* DataType::constrain (a todo!() stub): intersection of pattern unions.
DataType_constrain(s, constraint) ==
    LET o == Admissible(constraint).data_types
    IN  CASE o.all -> s
          [] s.all -> o
          [] OTHER ->
               DataType_some(SortPatterns(
                   {PatternIntersect(s.pats[i], o.pats[j]) :
                      <<i, j>> \in {ij \in (1..Len(s.pats)) \X (1..Len(o.pats)) :
                          PatternsCompatible(s.pats[ij[1]], o.pats[ij[2]])}}))

\* Boolean::constrain (a todo!() stub)
Boolean_constrain(s, constraint) ==
    Boolean_intersect(s, Admissible(constraint).booleans)

\* Integer::constrain (a todo!() stub)
Integer_constrain(s, constraint) == s \cap Admissible(constraint).integers

\* Set::constrain replacing the set by the admissible set of the constraint
\* instead of narrowing it.
Set_constrain_replace(s, constraint) == Admissible(constraint)

\* Set::constrain
Set_constrain(s, constraint) ==
    [booleans |-> Boolean_constrain(s.booleans, constraint),
     integers |-> Integer_constrain(s.integers, constraint),
     data_types |-> DataType_constrain(s.data_types, constraint)]

(***************************************************************************)
(* metavars::data::Data                                                    *)
(***************************************************************************)
\* A data block as bind() creates it for the alias block a.
Data_new(a) ==
    [aliases |-> <<a>>, constraints |-> <<>>, values |-> Set_full,
     updated |-> FALSE, complete |-> FALSE]

\* PartialEq of Pattern (derived): every field, the parameters by
\* Parameter::eq, which compares the metavariables and not the names.
Pattern_eq(self, other) ==
    /\ self.class = other.class
    /\ self.nullable = other.nullable
    /\ self.variation = other.variation
    /\ self.parameters.specified = other.parameters.specified
    /\ Len(self.parameters.list) = Len(other.parameters.list)
    /\ \A i \in 1..Len(self.parameters.list) :
         self.parameters.list[i].value = other.parameters.list[i].value

\* PartialEq of Set (derived), over its three partitions.
Set_eq(self, other) ==
    /\ self.booleans = other.booleans
    /\ self.integers = other.integers
    /\ self.data_types.all = other.data_types.all
    /\ Len(self.data_types.pats) = Len(other.data_types.pats)
    /\ \A i \in 1..Len(self.data_types.pats) :
         Pattern_eq(self.data_types.pats[i], other.data_types.pats[i])

\* PartialEq of Constraint (derived): the data and the reason.
Constraint_eq(self, other) ==
    /\ self.data.type = other.data.type
    /\ Set_eq(self.data.set, other.data.set)
    /\ self.data.type = "Function"
         => /\ self.data.function = other.data.function
            /\ self.data.arguments = other.data.arguments
    /\ self.reason = other.reason

\* self.constraints.iter().any(|x| x == &constraint) comparing the data and
\* not the reason.
HasConstraint_anyreason(self, constraint) ==
    \E i \in 1..Len(self.constraints) :
       Constraint_eq([self.constraints[i] EXCEPT !.reason = constraint.reason],
                     constraint)

\* self.constraints.iter().any(|x| x == &constraint)
HasConstraint(self, constraint) ==
    \E i \in 1..Len(self.constraints) :
       Constraint_eq(self.constraints[i], constraint)

\* Data::constrain that records the constraint even if an equal one is held.
Data_constrain_nodedup(self, constraint) ==
    IF self.complete
    THEN [data |-> self, status |-> "Panic", new |-> FALSE]
    ELSE LET values == Set_constrain(self.values, constraint)
         IN  [data |-> [self EXCEPT !.values = values,
                                    !.constraints = Append(@, constraint),
                                    !.updated = TRUE],
              status |-> IF Set_is_empty(values) THEN "OverConstrained"
                         ELSE "Ok",
              new |-> TRUE]

\* Data::constrain that records a new constraint without marking the block
\* updated.
Data_constrain_silent(self, constraint) ==
    IF HasConstraint(self, constraint)
    THEN [data |-> self, status |-> "Ok", new |-> FALSE]
    ELSE IF self.complete
    THEN [data |-> self, status |-> "Panic", new |-> FALSE]
    ELSE LET values == Set_constrain(self.values, constraint)
         IN  [data |-> [self EXCEPT !.values = values,
                                    !.constraints = Append(@, constraint)],
              status |-> IF Set_is_empty(values) THEN "OverConstrained"
                         ELSE "Ok",
              new |-> TRUE]

\* Data::constrain that records the constraint only if the value set stays
\* non-empty.
Data_constrain_droprejected(self, constraint) ==
    IF HasConstraint(self, constraint)
    THEN [data |-> self, status |-> "Ok", new |-> FALSE]
    ELSE IF self.complete
    THEN [data |-> self, status |-> "Panic", new |-> FALSE]
    ELSE LET values == Set_constrain(self.values, constraint)
         IN  [data |-> [self EXCEPT !.values = values,
                                    !.constraints =
                                       IF Set_is_empty(values) THEN @
                                       ELSE Append(@, constraint),
                                    !.updated = TRUE],
              status |-> IF Set_is_empty(values) THEN "OverConstrained"
                         ELSE "Ok",
              new |-> TRUE]

\* Data::constrain on the Data struct self: the struct afterwards and the
\* outcome.  The todo!() of the over-constrained branch is the error report
\* of spec 4.C; the constraint stays recorded.
Data_constrain(self, constraint) ==
    IF HasConstraint(self, constraint)
    THEN [data |-> self, status |-> "Ok", new |-> FALSE]
    ELSE IF self.complete
    THEN [data |-> self, status |-> "Panic", new |-> FALSE]
    ELSE LET values == Set_constrain(self.values, constraint)
         IN  [data |-> [self EXCEPT !.values = values,
                                    !.constraints = Append(@, constraint),
                                    !.updated = TRUE],
              status |-> IF Set_is_empty(values) THEN "OverConstrained"
                         ELSE "Ok",
              new |-> TRUE]

\* The constraints cs[i..] applied to the set s.
RECURSIVE ApplyAll(_, _, _)
ApplyAll(s, cs, i) ==
    IF i > Len(cs) THEN s ELSE ApplyAll(Set_constrain(s, cs[i]), cs, i + 1)

\* No value satisfies all constraints of the sequence cs.
Unsatisfiable(cs) == Set_is_empty(ApplyAll(Set_full, cs, 1))

\* The sequence w without its i-th element.
DropAt(w, i) == SubSeq(w, 1, i - 1) \o SubSeq(w, i + 1, Len(w))

\* Greedy shrink of the over-constrained witness (the todo!() of
\* Data::constrain; spec 4.C): drop a constraint while the rest stays
\* unsatisfiable.  The new constraint is the last one and is kept, as the
\* comment in Data::constrain requires.
RECURSIVE Shrink(_, _)
Shrink(w, i) ==
    IF i >= Len(w) THEN w
    ELSE IF Unsatisfiable(DropAt(w, i)) THEN Shrink(DropAt(w, i), i)
    ELSE Shrink(w, i + 1)

\* The constraints named by the OverConstrained error of Data::constrain,
\* from the Data struct after the constraint was pushed.
OverConstrainedWitness(self) == Shrink(self.constraints, 1)

\* The loop `for constraint in other_data.constraints.drain(..)` of merge_with.
RECURSIVE Replay(_, _, _)
Replay(self, constraints, i) ==
    IF i > Len(constraints) THEN self
    ELSE Replay(Data_constrain(self, constraints[i]).data, constraints, i + 1)

\* Weak::upgrade succeeds while a reference in scope holds the alias block.
AliasLive(h, a) == \E r \in Refs : h.refAlias[r] = a

\* The data block merge_with stores in the aliases of other.
MergeTarget(self, other) == other

\* Data::merge_with without the two assertions on the complete flags.
Data_merge_with_unchecked(h, self, other) ==
    LET kept == SelectSeq(h.data[other].aliases, LAMBDA a : AliasLive(h, a))
        keptSet == {kept[i] : i \in 1..Len(kept)}
        merged == Replay([h.data[self] EXCEPT !.aliases = @ \o kept],
                         h.data[other].constraints, 1)
    IN  [heap |->
           [h EXCEPT
              !.aliasData = [a \in DOMAIN h.aliasData |->
                               IF a \in keptSet THEN MergeTarget(self, other)
                               ELSE h.aliasData[a]],
              !.data = [h.data EXCEPT
                          ![self] = merged,
                          ![other] = [@ EXCEPT !.aliases = <<>>,
                                               !.constraints = <<>>]]],
         status |-> "Ok"]

\* Data::merge_with on the data blocks self and other of heap h.
Data_merge_with(h, self, other) ==
    IF h.data[self].complete \/ h.data[other].complete
    THEN [heap |-> h, status |-> "Panic"]
    ELSE LET kept == SelectSeq(h.data[other].aliases,
                               LAMBDA a : AliasLive(h, a))
             keptSet == {kept[i] : i \in 1..Len(kept)}
             merged == Replay([h.data[self] EXCEPT !.aliases = @ \o kept],
                              h.data[other].constraints, 1)
         IN  [heap |->
                [h EXCEPT
                   !.aliasData = [a \in DOMAIN h.aliasData |->
                                    IF a \in keptSet
                                    THEN MergeTarget(self, other)
                                    ELSE h.aliasData[a]],
                   !.data = [h.data EXCEPT
                               ![self] = merged,
                               ![other] = [@ EXCEPT !.aliases = <<>>,
                                                    !.constraints = <<>>]]],
              status |-> "Ok"]

\* Data::check_updates that reads the updated flag and leaves it set.
Data_check_updates_keep(self) == [data |-> self, result |-> self.updated]

\* Data::check_updates: the struct afterwards and the value returned.
Data_check_updates(self) ==
    IF self.updated
    THEN [data |-> [self EXCEPT !.updated = FALSE], result |-> TRUE]
    ELSE [data |-> self, result |-> FALSE]

\* Data::mark_complete
Data_mark_complete(self) == [self EXCEPT !.complete = TRUE]

\* Data::is_complete
Data_is_complete(self) == self.complete

(***************************************************************************)
(* metavars::reference::Reference                                          *)
(***************************************************************************)
\* Reference::constrain_equal without the two pointer comparisons: bound
\* references always reach merge_with.
Reference_constrain_equal_nocompare(h, self, other) ==
    IF h.refAlias[self] = NoAlias \/ h.refAlias[other] = NoAlias
    THEN [heap |-> h, status |-> "Panic"]
    ELSE Data_merge_with(h, h.aliasData[h.refAlias[self]],
                         h.aliasData[h.refAlias[other]])

\* Reference::constrain_equal
Reference_constrain_equal(h, self, other) ==
    IF h.refAlias[self] = NoAlias \/ h.refAlias[other] = NoAlias
    THEN [heap |-> h, status |-> "Panic"]
    ELSE IF h.refAlias[self] = h.refAlias[other]
    THEN [heap |-> h, status |-> "Ok"]
    ELSE IF h.aliasData[h.refAlias[self]] = h.aliasData[h.refAlias[other]]
    THEN [heap |-> h, status |-> "Ok"]
    ELSE Data_merge_with(h, h.aliasData[h.refAlias[self]],
                         h.aliasData[h.refAlias[other]])

\* Reference::constrain that returns without effect on an unbound reference.
Reference_constrain_lenient(h, self, constraint) ==
    IF h.refAlias[self] = NoAlias
    THEN [heap |-> h, status |-> "Ok", new |-> FALSE]
    ELSE LET d == h.aliasData[h.refAlias[self]]
             r == Data_constrain(h.data[d], constraint)
         IN  [heap |-> [h EXCEPT !.data = [h.data EXCEPT ![d] = r.data]],
              status |-> r.status, new |-> r.new]

\* Reference::constrain
Reference_constrain(h, self, constraint) ==
    IF h.refAlias[self] = NoAlias
    THEN [heap |-> h, status |-> "Panic", new |-> FALSE]
    ELSE LET d == h.aliasData[h.refAlias[self]]
             r == Data_constrain(h.data[d], constraint)
         IN  [heap |-> [h EXCEPT !.data = [h.data EXCEPT ![d] = r.data]],
              status |-> r.status, new |-> r.new]

\* The letters of metavariable names: upper case, and the same in lower case.
UpperCase == <<"T", "U">>
LowerCase == <<"t", "u">>

\* char::to_ascii_lowercase
CharToAsciiLowercase(ch) ==
    IF \E i \in 1..Len(UpperCase) : UpperCase[i] = ch
    THEN LowerCase[IndexOf(UpperCase, ch)]
    ELSE ch

\* str::to_ascii_lowercase, a name being its sequence of characters
ToAsciiLowercase(name) ==
    [i \in 1..Len(name) |-> CharToAsciiLowercase(name[i])]

\* metavars::key::Key
Key_Generic(key) == [kind |-> "Generic", id |-> key]
Key_Inferred(unique) == [kind |-> "Inferred", id |-> unique]
Key_FunctionReturnType == [kind |-> "FunctionReturnType", id |-> <<>>]

\* Reference::new_generic without the case folding of the name.
Reference_new_generic_verbatim(name) ==
    [key |-> Key_Generic(name), description |-> name]

\* Reference::new_generic; the alias field (None) is refAlias.
Reference_new_generic(name) ==
    LET key == ToAsciiLowercase(name)
    IN  [key |-> Key_Generic(key), description |-> name]

\* Reference::new_inferred, unique being the value of Unique::default()
Reference_new_inferred(unique) ==
    [key |-> Key_Inferred(unique), description |-> <<>>]

\* Reference::new_function_return_type
Reference_new_function_return_type ==
    [key |-> Key_FunctionReturnType, description |-> <<>>]

\* Reference::eq
Reference_eq(self, other) == self.key = other.key

(***************************************************************************)
(* The solver scope: four references, bound to one alias block and one     *)
(* data block each.  A is a generic, B an inferred metavariable, C the     *)
(* function return type and N the nullability metavariable of patterns.    *)
(***************************************************************************)
RefSeq == <<"A", "B", "C", "N">>
AliasIds == 1..Len(RefSeq)
DataIds == 1..Len(RefSeq)

\* Reference::bind (a todo!() stub; spec 4.D): a fresh alias block and data
\* block for every key.
BoundAlias(r) == IndexOf(RefSeq, r)

\* The four references of the scope as the validator constructs them.
ScopeReference(r) ==
    CASE r = "A" -> Reference_new_generic(<<"T">>)
      [] r = "B" -> Reference_new_inferred(<<"1">>)
      [] r = "C" -> Reference_new_function_return_type
      [] r = "N" -> Reference_new_generic(<<"n">>)

P_i32_N == Pattern("i32", "N", "unspecified", TRUE, <<>>)
P_i32_base == Pattern("i32", NoRef, "base", TRUE, <<>>)
P_i32_v1 == Pattern("i32", NoRef, "v1", TRUE, <<>>)

W123 == Within(Set_from_integer({1, 2, 3}), "within 1..3")
W234 == Within(Set_from_integer({2, 3, 4}), "within 2..4")
W4 == Within(Set_from_integer({4}), "is 4")
WTrue == Within(Set_from_boolean(SomeTrue), "nullable")
WFalse == Within(Set_from_boolean(SomeFalse), "not nullable")
WVariations ==
    Within(Set_from_data_type(DataType_some(<<P_i32_base, P_i32_v1>>)),
           "some i32")
MatchI32 == PatternConstraint(P_i32_N, "matches i32?N[?]")

\* The constraints the validator submits through each reference.
Catalogue(r) ==
    IF r = "N" THEN {WTrue, WFalse}
    ELSE {W123, W234, WVariations, MatchI32}

\* The constraints submitted in the logged specification.
LogCatalogue == {W123, W4}

\* References the validator constrains and equates.
MergeRefs == {"A", "B"}

RECURSIVE SumLen(_)
SumLen(S) ==
    IF S = {} THEN 0
    ELSE LET d == CHOOSE x \in S : TRUE
         IN  Len(data[d].constraints) + SumLen(S \ {d})

TotalConstraints == SumLen(DataIds)

Op(op, status, new) == [op |-> op, status |-> status, new |-> new]

NoOp == Op("none", "Ok", FALSE)

NoQuery == [self |-> 0, other |-> 0, answer |-> None]

(***************************************************************************)
(* The documentation tree (validator/src/tree.rs).  A node holds its       *)
(* node data in definition order; a Child datum owns the child node.       *)
(***************************************************************************)

\* The longest repeated field handed to push_proto_repeated_field.
MaxRepeat == 2

\* The field names of the root message; the nested messages have field "x".
FieldNames == {"a", "b"}

NestedName == "x"

AllFieldNames == FieldNames \cup {NestedName}

\* impl From<NodeType> for Node: no data yet.
Node_from(node_type) == [node_type |-> node_type, data |-> <<>>]

\* path::PathElement::Field(name) and ::Repeated(name, index).
PathField(name) == [variant |-> "Field", name |-> name, index |-> 0]

PathRepeated(name, index) == [variant |-> "Repeated", name |-> name, index |-> index]

\* NodeData::Child(Child { path_element, node, recognized }).
Child(path_element, node, recognized) ==
    [kind |-> "Child", path_element |-> path_element, node |-> node,
     recognized |-> recognized]

\* NodeData::Diagnostic(Diagnostic { cause, level, path }).
Diagnostic(cause, level, path) ==
    [kind |-> "Diagnostic", cause |-> cause, level |-> level, path |-> path]

IsChild(d) == d.kind = "Child"

IsDiagnostic(d) == d.kind = "Diagnostic"

\* A parsing context: the node under construction, the breadcrumb's path and
\* its fields_parsed set.  handled is a history field: how many push calls
\* per field name have returned in this context.
NewContext(output, path) ==
    [output |-> output, path |-> path, fields_parsed |-> {},
     handled |-> [n \in AllFieldNames |-> 0]]

\* The root context of Node::parse_proto, before the root parser runs.
Context_new == NewContext(Node_from("ProtoMessage"), <<>>)

\* push_diagnostic: the diagnostic goes to the end of the node's data and
\* carries the context's path.
Push_diagnostic(ctx, level, cause) ==
    [ctx EXCEPT !.output.data = Append(@, Diagnostic(cause, level, ctx.path))]

\* The protobuf inputs: an optional field is unpopulated or holds a message
\* whose parser may fail and whose own field x is unpopulated or holds a
\* message without further fields.
FieldInput(populated, fails, x) ==
    [populated |-> populated, fails |-> fails, x |-> x]

NoField == FieldInput(FALSE, FALSE, "None")

Leaf == FieldInput(TRUE, FALSE, "None")

Failing == FieldInput(TRUE, TRUE, "None")

Nested == FieldInput(TRUE, FALSE, "Leaf")

NestedFailing == FieldInput(TRUE, TRUE, "Failing")

PopulatedInputs == {Leaf, Failing, Nested, NestedFailing}

FieldInputs == {NoField} \cup PopulatedInputs

\* The field x of a message.
FieldX(field_input) ==
    CASE field_input.x = "Leaf" -> Leaf
      [] field_input.x = "Failing" -> Failing
      [] OTHER -> NoField

\* The elements of a repeated field, and the repeated fields.
RepeatedElements == {Leaf, NestedFailing}

RepeatedInputs ==
    UNION {[1..n -> RepeatedElements] : n \in 0..MaxRepeat}

Outcome(status, ctx, populated) ==
    [status |-> status, context |-> ctx, populated |-> populated]

RECURSIVE Push_proto_field(_, _, _, _, _)

\* The parser closure handed to the push functions: it parses the message's
\* field x in the child's context, then returns Err when the message is one
\* the parser rejects.
Parser(field_input, field_context) ==
    LET r == Push_proto_field(field_context, FieldX(field_input), NestedName,
                              FALSE, FALSE)
    IN  [status |-> r.status, context |-> r.context,
         result |-> IF field_input.fails THEN "Err" ELSE "Ok"]

\* The body shared by push_proto_field and push_proto_repeated_field for one
\* populated message: build the child node in a context of its own, run the
\* parser (an Err becomes a diagnostic of the child), push the Child datum
\* to the parent, then run the validator (an Err becomes a diagnostic of the
\* parent, after the Child).  The child's breadcrumb comes from
\* Breadcrumb::next; the nested parser uses a field name no enclosing
\* context uses, so the child's fields_parsed starting empty or as a copy
\* of its parent's makes no difference.
Push_child(ctx, field_input, path_element, unknown_subtree, validator_fails) ==
    LET field_context == NewContext(Node_from("ProtoMessage"),
                                    Append(ctx.path, path_element))
        parsed == Parser(field_input, field_context)
        noted == IF parsed.result = "Err"
                 THEN Push_diagnostic(parsed.context, "Error", "parser")
                 ELSE parsed.context
        pushed == [ctx EXCEPT !.output.data =
                       Append(@, Child(path_element, noted.output,
                                       ~unknown_subtree))]
        validated == IF validator_fails
                     THEN Push_diagnostic(pushed, "Error", "validator")
                     ELSE pushed
    IN  IF parsed.status = "panic"
        THEN Outcome("panic", ctx, TRUE)
        ELSE Outcome("ok", validated, TRUE)

\* A variant of push_proto_field that records the field name only when the
\* field is populated.
Push_proto_field_populated(ctx, field, field_name, unknown_subtree, validator_fails) ==
    IF field.populated /\ field_name \in ctx.fields_parsed
    THEN Outcome("panic", ctx, FALSE)
    ELSE IF field.populated
         THEN Push_child([ctx EXCEPT !.fields_parsed = @ \cup {field_name}],
                         field, PathField(field_name), unknown_subtree,
                         validator_fails)
         ELSE Outcome("ok", ctx, FALSE)

\* push_proto_field: panic when the name was parsed before in this context,
\* whatever the field holds; otherwise record the name and, when the field
\* is populated, push its child.
Push_proto_field(ctx, field, field_name, unknown_subtree, validator_fails) ==
    IF field_name \in ctx.fields_parsed
    THEN Outcome("panic", ctx, FALSE)
    ELSE LET inserted == [ctx EXCEPT !.fields_parsed = @ \cup {field_name}]
         IN  IF field.populated
             THEN Push_child(inserted, field, PathField(field_name),
                             unknown_subtree, validator_fails)
             ELSE Outcome("ok", inserted, FALSE)

\* push_proto_required_field: push_proto_field, and a MissingField
\* diagnostic when the field is not populated.
Push_proto_required_field(ctx, field, field_name, unknown_subtree, validator_fails) ==
    LET r == Push_proto_field(ctx, field, field_name, unknown_subtree,
                              validator_fails)
    IN  IF r.status = "panic" \/ r.populated
        THEN r
        ELSE Outcome("ok", Push_diagnostic(r.context, "Error", "MissingField"),
                     FALSE)

RECURSIVE Push_elements(_, _, _, _, _, _)

\* The map over the elements of a repeated field, from element index on.
Push_elements(ctx, fields, field_name, index, unknown_subtree, validator_fails) ==
    IF index > Len(fields)
    THEN Outcome("ok", ctx, Len(fields) > 0)
    ELSE LET r == Push_child(ctx, fields[index],
                             PathRepeated(field_name, index - 1),
                             unknown_subtree, validator_fails)
         IN  IF r.status = "panic"
             THEN r
             ELSE Push_elements(r.context, fields, field_name, index + 1,
                                unknown_subtree, validator_fails)

\* push_proto_repeated_field: the same check of the name, then one child
\* per element, in order.
Push_proto_repeated_field(ctx, fields, field_name, unknown_subtree, validator_fails) ==
    IF field_name \in ctx.fields_parsed
    THEN Outcome("panic", ctx, FALSE)
    ELSE Push_elements([ctx EXCEPT !.fields_parsed = @ \cup {field_name}],
                       fields, field_name, 1, unknown_subtree, validator_fails)

Reverse(s) == [i \in 1..Len(s) |-> s[Len(s) + 1 - i]]

\* filter_map over node data: the nodes of the Child entries, in order.
ChildNodes(node_data) ==
    LET children == SelectSeq(node_data, IsChild)
    IN  [i \in 1..Len(children) |-> children[i].node]

PopBack(remaining) == SubSeq(remaining, 1, Len(remaining) - 1)

\* Node::iter_flattened_nodes: the deque holds the node itself.
Iter_flattened_nodes(self) == <<self>>

\* Node::iter_flattened_node_data: the deque holds the node's data reversed.
Iter_flattened_node_data(self) == Reverse(self.data)

\* A variant of FlattenedNodeIter::next that extends the deque with the
\* children in definition order.
FlattenedNodeIter_next_norev(remaining) ==
    LET node == remaining[Len(remaining)]
    IN  [item |-> node,
         remaining |-> PopBack(remaining) \o ChildNodes(node.data)]

\* FlattenedNodeIter::next on a deque that is not empty: pop the back, push
\* the node's children to the back in reverse order.
FlattenedNodeIter_next(remaining) ==
    LET node == remaining[Len(remaining)]
    IN  [item |-> node,
         remaining |-> PopBack(remaining) \o ChildNodes(Reverse(node.data))]

\* FlattenedNodeDataIter::next on a deque that is not empty: pop the back,
\* and for a Child push its node's data to the back in reverse order.
FlattenedNodeDataIter_next(remaining) ==
    LET node_data == remaining[Len(remaining)]
    IN  [item |-> node_data,
         remaining |-> IF IsChild(node_data)
                       THEN PopBack(remaining) \o Reverse(node_data.node.data)
                       ELSE PopBack(remaining)]

\* The iterators over the output tree: the two deques, and what each
\* iterator has yielded so far; diagnostics is what iter_diagnostics lets
\* through of the node data yielded.
Walk(phase, nodeRemaining, nodes, dataRemaining, yielded, diagnostics) ==
    [phase |-> phase, nodeRemaining |-> nodeRemaining, nodes |-> nodes,
     dataRemaining |-> dataRemaining, yielded |-> yielded,
     diagnostics |-> diagnostics]

NoWalk == Walk("idle", <<>>, <<>>, <<>>, <<>>, <<>>)

\* No constrain_equal call is in progress.
NoCall ==
    [pc |-> "idle", self |-> NoRef, other |-> NoRef, aliasBorrows |-> {},
     dataBorrows |-> {}, aliasMut |-> {}, conflict |-> FALSE]

\* The solver before solve(scope) is called.
SolverIdle ==
    [phase |-> "idle", worklist |-> <<>>, outcome |-> "None", report |-> {}]

Init ==
    /\ reference = [r \in Refs |-> ScopeReference(r)]
    /\ refAlias = [r \in Refs |-> BoundAlias(r)]
    /\ aliasData = [a \in AliasIds |-> a]
    /\ data = [d \in DataIds |-> Data_new(d)]
    /\ applied = [d \in DataIds |-> {}]
    /\ submitted = [r \in Refs |-> {}]
    /\ equated = {}
    /\ panicked = FALSE
    /\ lastOp = NoOp
    /\ coversLog = NoQuery
    /\ solver = SolverIdle
    /\ call = NoCall
    /\ context = Context_new
    /\ walk = NoWalk

SetHeap(h) ==
    /\ refAlias' = h.refAlias
    /\ aliasData' = h.aliasData
    /\ data' = h.data

BlockOf(r) == IF refAlias[r] = NoAlias THEN 0 ELSE aliasData[refAlias[r]]

ConstraintsOf(d) ==
    {data[d].constraints[i] : i \in 1..Len(data[d].constraints)}

\* Reference::constrain(r, c), while fewer than cap constraints are recorded;
\* log tells whether the specification keeps lastOp.
ConstrainStep(r, c, cap, log) ==
    /\ ~panicked
    /\ \/ TotalConstraints < cap
       \/ BlockOf(r) # 0 /\ HasConstraint(data[BlockOf(r)], c)
    /\ LET res == Reference_constrain(Heap, r, c)
       IN  /\ SetHeap(res.heap)
           /\ panicked' = (res.status = "Panic")
           /\ applied' = IF res.new
                         THEN [applied EXCEPT ![BlockOf(r)] = @ \cup {c}]
                         ELSE applied
           /\ submitted' = IF res.status = "Panic" THEN submitted
                           ELSE [submitted EXCEPT ![r] = @ \cup {c}]
           /\ lastOp' = IF log THEN Op("constrain", res.status, res.new)
                        ELSE NoOp
    /\ UNCHANGED <<solver, reference, context, walk, equated>>

\* Reference::constrain_equal(a, b)
ConstrainEqualStep(a, b, log) ==
    /\ ~panicked
    /\ LET res == Reference_constrain_equal(Heap, a, b)
           merges == res.status = "Ok" /\ BlockOf(a) # BlockOf(b)
       IN  /\ SetHeap(res.heap)
           /\ panicked' = (res.status = "Panic")
           /\ applied' =
                IF merges
                THEN [applied EXCEPT ![BlockOf(a)] =
                        @ \cup ConstraintsOf(BlockOf(b))]
                ELSE applied
           /\ equated' = IF res.status = "Ok" /\ a # b
                         THEN equated \cup {{a, b}}
                         ELSE equated
           /\ lastOp' = IF log THEN Op("constrain_equal", res.status, merges)
                        ELSE NoOp
    /\ UNCHANGED <<solver, reference, context, walk, submitted>>

\* Data::mark_complete on the data block of r
MarkCompleteStep(r, log) ==
    /\ ~panicked
    /\ data' = [data EXCEPT ![BlockOf(r)] = Data_mark_complete(@)]
    /\ lastOp' = IF log
                 THEN Op("mark_complete", "Ok", ~data[BlockOf(r)].complete)
                 ELSE NoOp
    /\ UNCHANGED <<solver, reference, context, walk, refAlias, aliasData, applied, submitted,
                   equated, panicked>>

\* Data::check_updates on the data block of r
CheckUpdatesStep(r, log) ==
    /\ ~panicked
    /\ LET res == Data_check_updates(data[BlockOf(r)])
       IN  /\ data' = [data EXCEPT ![BlockOf(r)] = res.data]
           /\ lastOp' = IF log THEN Op("check_updates", "Ok", res.result)
                        ELSE NoOp
    /\ UNCHANGED <<solver, reference, context, walk, refAlias, aliasData, applied, submitted,
                   equated, panicked>>

(***************************************************************************)
(* Spec: two references A and B of the scope are constrained, equated,     *)
(* polled and completed in any order.                                      *)
(***************************************************************************)
Constrain(r, c) ==
    ConstrainStep(r, c, MaxConstraints, FALSE) /\ UNCHANGED <<coversLog, call>>

ConstrainEqual(a, b) == ConstrainEqualStep(a, b, FALSE) /\ UNCHANGED <<coversLog, call>>

MarkComplete(r) == MarkCompleteStep(r, FALSE) /\ UNCHANGED <<coversLog, call>>

Next ==
    \/ \E r \in MergeRefs : \E c \in Catalogue(r) : Constrain(r, c)
    \/ \E a \in MergeRefs : \E b \in MergeRefs : ConstrainEqual(a, b)
    \/ \E r \in MergeRefs : MarkComplete(r)

Spec == Init /\ [][Next]_vars

(***************************************************************************)
(* SpecLog: the same operations, with lastOp recording the operation that  *)
(* produced each state and its outcome.                                    *)
(***************************************************************************)
LogConstrain(r, c) ==
    ConstrainStep(r, c, MaxConstraints, TRUE) /\ UNCHANGED <<coversLog, call>>

LogConstrainEqual(a, b) ==
    ConstrainEqualStep(a, b, TRUE) /\ UNCHANGED <<coversLog, call>>

LogMarkComplete(r) == MarkCompleteStep(r, TRUE) /\ UNCHANGED <<coversLog, call>>

LogCheckUpdates(r) == CheckUpdatesStep(r, TRUE) /\ UNCHANGED <<coversLog, call>>

NextLog ==
    \/ \E r \in MergeRefs : \E c \in LogCatalogue : LogConstrain(r, c)
    \/ \E a \in MergeRefs : \E b \in MergeRefs : LogConstrainEqual(a, b)
    \/ \E r \in MergeRefs : LogMarkComplete(r)
    \/ \E r \in MergeRefs : LogCheckUpdates(r)

SpecLog == Init /\ [][NextLog]_vars

(***************************************************************************)
(* SpecCovers: while A and B are constrained, equated and completed, the   *)
(* solver evaluates Data::covers on their data blocks; coversLog keeps the *)
(* first definite answer it obtained.                                      *)
(***************************************************************************)
\* One constraint more than in Spec, so that a block can be narrowed twice
\* while the other one is constrained.
CoversCap == MaxConstraints + 1

CoversCatalogue == {W123, W4}

CoversConstrain(r, c) ==
    ConstrainStep(r, c, CoversCap, FALSE) /\ UNCHANGED <<coversLog, call>>

\* Data::covers on the data blocks of a and b, the answer being definite.
QueryCovers(a, b) ==
    /\ ~panicked
    /\ coversLog.answer = None
    /\ Data_covers(Heap, BlockOf(a), BlockOf(b)) # None
    /\ coversLog' = [self |-> BlockOf(a), other |-> BlockOf(b),
                     answer |-> Data_covers(Heap, BlockOf(a), BlockOf(b))]
    /\ UNCHANGED <<solver, reference, context, walk, refAlias, aliasData, data, applied,
                   submitted, equated, panicked, lastOp, call>>

NextCovers ==
    \/ \E r \in MergeRefs : \E c \in CoversCatalogue : CoversConstrain(r, c)
    \/ \E a \in MergeRefs : \E b \in MergeRefs : ConstrainEqual(a, b)
    \/ \E r \in MergeRefs : MarkComplete(r)
    \/ \E a \in MergeRefs : \E b \in MergeRefs : QueryCovers(a, b)

SpecCovers == Init /\ [][NextCovers]_vars

(***************************************************************************)
(* SpecPat: the metavariables that patterns refer to are narrowed and      *)
(* completed: N and C are nullability metavariables, A and B parameters.   *)
(***************************************************************************)
PatCatalogue(r) ==
    IF r \in {"N", "C"} THEN {WTrue, WFalse} ELSE {W123, W4}

PatConstrain(r, c) ==
    ConstrainStep(r, c, CoversCap, FALSE) /\ UNCHANGED <<coversLog, call>>

NextPat ==
    \/ \E r \in Refs : \E c \in PatCatalogue(r) : PatConstrain(r, c)
    \/ \E r \in Refs : MarkComplete(r)

SpecPat == Init /\ [][NextPat]_vars

(***************************************************************************)
(* SpecBind: the references of a scope start unbound, with generic names   *)
(* of either case, and are bound, constrained and equated in any order.    *)
(***************************************************************************)
\* The names the validator gives to generic metavariables.
Names == {<<"T">>, <<"t">>, <<"u", "T">>}

\* References the validator binds.
BindRefs == {"A", "B", "C"}

\* The constraints submitted, and how many are recorded at most.
BindCatalogue == {W123}
BindCap == 1

\* An alias block (and its data block) the scope has not handed out.
FreshAlias(h) ==
    LET free == {a \in AliasIds : \A r \in Refs : h.refAlias[r] # a}
    IN  CHOOSE a \in free : \A b \in free : a <= b

\* Reference::bind (a todo!() stub; spec 4.D): idempotent; the key is looked
\* up in the scope, and a key the scope does not hold gets a fresh alias
\* block and data block.
Reference_bind(h, refs, self) ==
    IF h.refAlias[self] # NoAlias THEN h
    ELSE LET held == {r \in Refs : /\ h.refAlias[r] # NoAlias
                                   /\ Reference_eq(refs[r], refs[self])}
         IN  IF held # {}
             THEN [h EXCEPT !.refAlias[self] =
                              h.refAlias[CHOOSE r \in held : TRUE]]
             ELSE [h EXCEPT !.refAlias[self] = FreshAlias(h)]

InitBind ==
    /\ \E names \in [BindRefs -> Names] :
         reference = [r \in Refs |->
                        IF r \in BindRefs THEN Reference_new_generic(names[r])
                        ELSE Reference_new_inferred(<<"1">>)]
    /\ refAlias = [r \in Refs |-> NoAlias]
    /\ aliasData = [a \in AliasIds |-> a]
    /\ data = [d \in DataIds |-> Data_new(d)]
    /\ applied = [d \in DataIds |-> {}]
    /\ submitted = [r \in Refs |-> {}]
    /\ equated = {}
    /\ panicked = FALSE
    /\ lastOp = NoOp
    /\ coversLog = NoQuery
    /\ solver = SolverIdle
    /\ call = NoCall
    /\ context = Context_new
    /\ walk = NoWalk

\* Reference::bind(r)
Bind(r) ==
    /\ ~panicked
    /\ SetHeap(Reference_bind(Heap, reference, r))
    /\ lastOp' = Op("bind", "Ok", refAlias[r] = NoAlias)
    /\ UNCHANGED <<solver, reference, context, walk, applied, submitted, equated, panicked,
                   coversLog, call>>

\* Reference::constrain(r, c), bound or not
BindConstrain(r, c) ==
    ConstrainStep(r, c, BindCap, TRUE) /\ UNCHANGED <<coversLog, call>>

NextBind ==
    \/ \E r \in BindRefs : Bind(r)
    \/ \E r \in MergeRefs : \E c \in BindCatalogue : BindConstrain(r, c)
    \/ \E a \in MergeRefs : \E b \in MergeRefs : LogConstrainEqual(a, b)

SpecBind == InitBind /\ [][NextBind]_vars

(***************************************************************************)
(* SpecSolve: the validator constrains the references of a bound scope and *)
(* then calls solve(scope), the worklist fixpoint of spec 4.E.             *)
(***************************************************************************)
P_i32_C_base == Pattern("i32", "C", "base", TRUE, <<>>)
P_i32_N_base == Pattern("i32", "N", "base", TRUE, <<>>)

\* The type is an i32 whose nullability is that of C or that of N.
WNullableI32 ==
    Within(Set_from_data_type(DataType_some(<<P_i32_C_base, P_i32_N_base>>)),
           "i32 as nullable as C or N")

\* The value of A is that of B plus one, and the other way around.
AIsBPlus1 == FunctionConstraint("increment", <<"B">>, "A = B + 1")
BIsAPlus1 == FunctionConstraint("increment", <<"A">>, "B = A + 1")

\* The constraints the validator submits through each reference, and how
\* many are recorded at most.
SolveCatalogue(r) ==
    CASE r = "A" -> {W4, WNullableI32, AIsBPlus1}
      [] r = "B" -> {W4, BIsAPlus1}
      [] OTHER -> {WTrue}
SolveCap == 4

\* The data blocks of the scope: those a reference reaches.
ScopeBlocks == {BlockOf(r) : r \in Refs}

\* The data blocks of S in FIFO order of their creation.
RECURSIVE InOrder(_)
InOrder(S) ==
    IF S = {} THEN <<>>
    ELSE LET d == CHOOSE x \in S : \A y \in S : x <= y
         IN  <<d>> \o InOrder(S \ {d})

\* Re-evaluation of the constraints of a data block against its value set
\* (spec 4.E: Within intersects, Pattern tightens to the matching types).
Reevaluate(self) == [self EXCEPT !.values = ApplyAll(@, self.constraints, 1)]

\* The evaluator of a function of the vocabulary.
Function_evaluate(function, i) == i + 1

\* The results of the function on the integers of s, and the integers whose
\* result lies in s.
Images(function, s) == {Function_evaluate(function, i) : i \in s} \cap IntUniverse
Preimages(function, s) ==
    {i \in IntUniverse : Function_evaluate(function, i) \in s}

\* The data block self tightened to the values of set, through
\* Data::constrain with a Within constraint that carries the reason of the
\* constraint being re-evaluated; untouched if set removes no value.
Tighten(self, set, reason) ==
    IF Set_constrain(self.values, Within(set, reason)) = self.values THEN self
    ELSE Data_constrain(self, Within(set, reason)).data

\* Re-evaluation of the Function constraint c of data block x (spec 4.E): if
\* the argument is resolved the value set of x is reduced to the result;
\* else the bounds are propagated both ways.
Propagate(h, x, c) ==
    LET y == h.aliasData[h.refAlias[c.data.arguments[1]]]
        f == c.data.function
        xd == Tighten(h.data[x],
                      Set_from_integer(Images(f, h.data[y].values.integers)),
                      c.reason)
        yd == IF Data_value(h, y) # NoValue THEN h.data[y]
              ELSE Tighten(h.data[y],
                           [Set_full EXCEPT
                              !.integers = Preimages(f, xd.values.integers)],
                           c.reason)
    IN  [h EXCEPT !.data = [d \in DataIds |->
                              IF d = x THEN xd
                              ELSE IF d = y THEN yd
                              ELSE h.data[d]]]

\* The Function constraints the data block b participates in, as pairs of
\* the block that records the constraint and the constraint, from the i-th
\* constraint of block d on.
RECURSIVE Participates(_, _, _, _)
Participates(h, b, d, i) ==
    IF d > Len(RefSeq) THEN <<>>
    ELSE IF i > Len(h.data[d].constraints) THEN Participates(h, b, d + 1, 1)
    ELSE LET c == h.data[d].constraints[i]
         IN  IF /\ c.data.type = "Function"
                /\ \/ d = b
                   \/ h.aliasData[h.refAlias[c.data.arguments[1]]] = b
             THEN <<<<d, c>>>> \o Participates(h, b, d, i + 1)
             ELSE Participates(h, b, d, i + 1)

RECURSIVE PropagateAll(_, _, _)
PropagateAll(h, uses, i) ==
    IF i > Len(uses) THEN h
    ELSE PropagateAll(Propagate(h, uses[i][1], uses[i][2]), uses, i + 1)

SolveConstrain(r, c) ==
    /\ solver.phase = "idle"
    /\ ConstrainStep(r, c, SolveCap, FALSE)
    /\ UNCHANGED <<coversLog, call>>

\* solve(scope): enqueue every data block that is marked updated.
SolveStart ==
    /\ ~panicked
    /\ solver.phase = "idle"
    /\ solver' = [solver EXCEPT
                    !.phase = "running",
                    !.worklist = InOrder({d \in ScopeBlocks : data[d].updated})]
    /\ UNCHANGED <<reference, context, walk, refAlias, aliasData, data, applied, submitted,
                   equated, panicked, lastOp, coversLog, call>>

\* One iteration of the worklist loop: pop a block, skip it unless
\* check_updates() tells it changed, re-evaluate every constraint it
\* participates in, and enqueue every block whose value set shrank.
SolveStep ==
    /\ solver.phase = "running"
    /\ solver.worklist # <<>>
    /\ LET b == Head(solver.worklist)
           res == Data_check_updates(data[b])
           own == [Heap EXCEPT !.data = [data EXCEPT ![b] = Reevaluate(res.data)]]
           after == PropagateAll(own, Participates(own, b, 1, 1), 1)
           shrank == {d \in DataIds : after.data[d].values # data[d].values}
       IN  IF ~res.result
           THEN /\ solver' = [solver EXCEPT !.worklist = Tail(@)]
                /\ UNCHANGED data
           ELSE /\ data' = after.data
                /\ solver' = [solver EXCEPT
                                !.worklist = Tail(@) \o InOrder(shrank)]
    /\ UNCHANGED <<reference, context, walk, refAlias, aliasData, applied, submitted, equated,
                   panicked, lastOp, coversLog, call>>

\* The variables without a value, each with its remaining set.
Unresolved(h) ==
    {[variable |-> d, remaining |-> h.data[d].values] :
       d \in {x \in ScopeBlocks : Data_value(h, x) = NoValue}}

\* The end of the loop: every block a singleton is success, an empty block a
\* contradiction; else all blocks are marked complete and the unresolved
\* variables are reported.
SolveEnd ==
    /\ solver.phase = "running"
    /\ solver.worklist = <<>>
    /\ IF \A d \in ScopeBlocks : Data_value(Heap, d) # NoValue
       THEN /\ solver' = [solver EXCEPT !.phase = "done",
                                        !.outcome = "Resolved"]
            /\ UNCHANGED data
       ELSE IF \E d \in ScopeBlocks : Set_is_empty(data[d].values)
       THEN /\ solver' = [solver EXCEPT !.phase = "done",
                                        !.outcome = "Contradiction"]
            /\ UNCHANGED data
       ELSE /\ data' = [d \in DataIds |->
                          IF d \in ScopeBlocks THEN Data_mark_complete(data[d])
                          ELSE data[d]]
            /\ solver' = [solver EXCEPT !.phase = "done",
                                        !.outcome = "Underdetermined",
                                        !.report = Unresolved(Heap)]
    /\ UNCHANGED <<reference, context, walk, refAlias, aliasData, applied, submitted, equated,
                   panicked, lastOp, coversLog, call>>

NextSolve ==
    \/ \E r \in Refs : \E c \in SolveCatalogue(r) : SolveConstrain(r, c)
    \/ SolveStart
    \/ SolveStep
    \/ SolveEnd

SpecSolve == Init /\ [][NextSolve]_vars

(***************************************************************************)
(* SpecBorrow: Reference::constrain_equal statement by statement, with the *)
(* RefCell borrows it holds on alias blocks and data blocks; constrain is   *)
(* called between two calls of constrain_equal.                            *)
(***************************************************************************)
BorrowConstrain(r, c) ==
    /\ call.pc = "idle"
    /\ ConstrainStep(r, c, MaxConstraints, FALSE)
    /\ UNCHANGED <<coversLog, call>>

\* let a_alias = self.alias.as_ref().expect(..), the same for other, and the
\* return if both are the same alias block.
EnterConstrainEqual(a, b) ==
    /\ ~panicked
    /\ call.pc = "idle"
    /\ refAlias[a] # NoAlias
    /\ refAlias[b] # NoAlias
    /\ refAlias[a] # refAlias[b]
    /\ call' = [NoCall EXCEPT !.pc = "borrow_a_alias", !.self = a, !.other = b]
    /\ UNCHANGED <<solver, reference, context, walk, refAlias, aliasData, data, applied,
                   submitted, equated, panicked, lastOp, coversLog>>

\* let a_alias = a_alias.borrow();
BorrowSelfAlias ==
    /\ call.pc = "borrow_a_alias"
    /\ call' = [call EXCEPT !.pc = "borrow_b_alias",
                            !.aliasBorrows = @ \cup {refAlias[call.self]}]
    /\ UNCHANGED <<solver, reference, context, walk, refAlias, aliasData, data, applied,
                   submitted, equated, panicked, lastOp, coversLog>>

\* let b_alias = b_alias.borrow();
BorrowOtherAlias ==
    /\ call.pc = "borrow_b_alias"
    /\ call' = [call EXCEPT !.pc = "compare_data",
                            !.aliasBorrows = @ \cup {refAlias[call.other]}]
    /\ UNCHANGED <<solver, reference, context, walk, refAlias, aliasData, data, applied,
                   submitted, equated, panicked, lastOp, coversLog>>

\* if Rc::ptr_eq(&a_alias.data, &b_alias.data) { return; }
CompareData ==
    /\ call.pc = "compare_data"
    /\ call' = IF BlockOf(call.self) = BlockOf(call.other) THEN NoCall
               ELSE [call EXCEPT !.pc = "borrow_a_data"]
    /\ UNCHANGED <<solver, reference, context, walk, refAlias, aliasData, data, applied,
                   submitted, equated, panicked, lastOp, coversLog>>

\* A RefCell borrow that finds the block borrowed incompatibly panics.
BorrowConflict(c) == [c EXCEPT !.pc = "panic", !.conflict = TRUE]

\* let a_data_ref = a_alias.data.clone(); let b_data_ref = ..;
\* let mut a_data = a_data_ref.borrow_mut();
BorrowSelfData ==
    /\ call.pc = "borrow_a_data"
    /\ call' = IF BlockOf(call.self) \in call.dataBorrows
               THEN BorrowConflict(call)
               ELSE [call EXCEPT !.pc = "drop_a_alias",
                                 !.dataBorrows = @ \cup {BlockOf(call.self)}]
    /\ panicked' = (BlockOf(call.self) \in call.dataBorrows)
    /\ UNCHANGED <<solver, reference, context, walk, refAlias, aliasData, data, applied,
                   submitted, equated, lastOp, coversLog>>

\* drop(a_alias);
DropSelfAlias ==
    /\ call.pc = "drop_a_alias"
    /\ call' = [call EXCEPT !.pc = "drop_b_alias",
                            !.aliasBorrows = @ \ {refAlias[call.self]}]
    /\ UNCHANGED <<solver, reference, context, walk, refAlias, aliasData, data, applied,
                   submitted, equated, panicked, lastOp, coversLog>>

\* drop(b_alias); without the release of the borrow.
DropOtherAlias_keep ==
    /\ call.pc = "drop_b_alias"
    /\ call' = [call EXCEPT !.pc = "merge"]
    /\ UNCHANGED <<solver, reference, context, walk, refAlias, aliasData, data, applied,
                   submitted, equated, panicked, lastOp, coversLog>>

\* drop(b_alias);
DropOtherAlias ==
    /\ call.pc = "drop_b_alias"
    /\ call' = [call EXCEPT !.pc = "merge",
                            !.aliasBorrows = @ \ {refAlias[call.other]}]
    /\ UNCHANGED <<solver, reference, context, walk, refAlias, aliasData, data, applied,
                   submitted, equated, panicked, lastOp, coversLog>>

\* Data::merge_with: the two assertions, which end the call when a block is
\* complete, and let other_data = other.borrow_mut();
MergeBorrowOther ==
    /\ call.pc = "merge"
    /\ IF \/ data[BlockOf(call.self)].complete
          \/ data[BlockOf(call.other)].complete
       THEN /\ ConstrainEqualStep(call.self, call.other, FALSE)
            /\ call' = NoCall
            /\ UNCHANGED coversLog
       ELSE /\ call' = IF BlockOf(call.other) \in call.dataBorrows
                       THEN BorrowConflict(call)
                       ELSE [call EXCEPT
                               !.pc = "merge_aliases",
                               !.dataBorrows = @ \cup {BlockOf(call.other)}]
            /\ panicked' = (BlockOf(call.other) \in call.dataBorrows)
            /\ UNCHANGED <<solver, reference, context, walk, refAlias, aliasData, data,
                           applied, submitted, equated, lastOp, coversLog>>

\* The alias blocks that the filter of merge_with borrows mutably: the live
\* ones in the alias list of other.
Realiased(h, other) ==
    {a \in AliasIds :
       /\ AliasLive(h, a)
       /\ \E i \in 1..Len(h.data[other].aliases) :
            h.data[other].aliases[i] = a}

\* other_data.aliases.drain(..).filter(|x| x.upgrade().map(|x|
\* x.borrow_mut().data = other.clone()).is_some())
MergeRealias ==
    /\ call.pc = "merge_aliases"
    /\ LET written == Realiased(Heap, BlockOf(call.other))
       IN  /\ call' = IF written \cap call.aliasBorrows # {}
                      THEN BorrowConflict(call)
                      ELSE [call EXCEPT !.pc = "merge_constrain",
                                        !.aliasMut = written]
           /\ panicked' = (written \cap call.aliasBorrows # {})
    /\ UNCHANGED <<solver, reference, context, walk, refAlias, aliasData, data, applied,
                   submitted, equated, lastOp, coversLog>>

\* for constraint in other_data.constraints.drain(..) { self.constrain(..) }
\* and the return, which ends the borrows and leaves the merged blocks.
MergeAndReturn ==
    /\ call.pc = "merge_constrain"
    /\ ConstrainEqualStep(call.self, call.other, FALSE)
    /\ call' = NoCall
    /\ UNCHANGED coversLog

NextBorrow ==
    \/ \E r \in MergeRefs : \E c \in LogCatalogue : BorrowConstrain(r, c)
    \/ \E a \in MergeRefs : \E b \in MergeRefs : EnterConstrainEqual(a, b)
    \/ BorrowSelfAlias
    \/ BorrowOtherAlias
    \/ CompareData
    \/ BorrowSelfData
    \/ DropSelfAlias
    \/ DropOtherAlias
    \/ MergeBorrowOther
    \/ MergeRealias
    \/ MergeAndReturn

SpecBorrow == Init /\ [][NextBorrow]_vars

(***************************************************************************)
(* Universes the properties range over.                                    *)
(***************************************************************************)
\* Parameter packs of concrete types: none, one integer, two integers.
ConcreteParameters ==
    {<<>>} \cup {<<[kind |-> "Unsigned", v |-> i]>> : i \in IntUniverse}
    \cup {<<[kind |-> "Unsigned", v |-> 0], [kind |-> "Unsigned", v |-> 0]>>}

\* Concrete types; "v2" is a variation no pattern of the model names.
TypeUniverse ==
    {ConcreteType(c, n, v, ps) :
       c \in {"i32", "varchar"}, n \in BOOLEAN, v \in {"base", "v1", "v2"},
       ps \in ConcreteParameters}

\* Parameter packs of patterns: unspecified, empty, one metavariable.
ParameterPacks ==
    {<<FALSE, <<>>>>, <<TRUE, <<>>>>}
    \cup {<<TRUE, <<Parameter("", r)>>>> : r \in {"A", "B"}}

PatternUniverse ==
    {Pattern(c, n, v, pp[1], pp[2]) :
       c \in {"i32", "varchar"}, n \in {NoRef, "N", "C"},
       v \in {"unspecified", "base", "v1"}, pp \in ParameterPacks}

\* The patterns of one class without parameters, for sets of patterns.
SetPatterns ==
    {p \in PatternUniverse :
       p.class = "i32" /\ (p.parameters.specified => p.parameters.list = <<>>)}

\* Every concrete type matching q matches p.
SemanticallyCovers(p, q) ==
    \A t \in TypeUniverse :
       Pattern_matches(Heap, q, t) => Pattern_matches(Heap, p, t)

ValueUniverse ==
    {BoolValue(b) : b \in BOOLEAN} \cup {IntValue(i) : i \in IntUniverse}
    \cup {TypeValue(t) : t \in TypeUniverse}

AllConstraints == <<W123, W234, W4, WTrue, WFalse, WVariations, MatchI32>>

\* v lies in the admissible set of every constraint of S.
InAll(S, v) == \A c \in S : Set_contains(Heap, Admissible(c), v)

\* The constraints of S applied to the full set in the order of AllConstraints.
RECURSIVE ApplyInOrder(_, _, _)
ApplyInOrder(s, S, i) ==
    IF i > Len(AllConstraints) THEN s
    ELSE ApplyInOrder(IF AllConstraints[i] \in S
                      THEN Set_constrain(s, AllConstraints[i]) ELSE s,
                      S, i + 1)

(***************************************************************************)
(* SpecReason: constraints that differ in the reason only, or in the names *)
(* of the parameters of their pattern only, are submitted and polled.      *)
(***************************************************************************)
W123Again == Within(Set_from_integer({1, 2, 3}), "again within 1..3")
MatchNamedX ==
    PatternConstraint(Pattern("i32", NoRef, "unspecified", TRUE,
                              <<Parameter("x", "N")>>), "matches i32<N>")
MatchNamedY ==
    PatternConstraint(Pattern("i32", NoRef, "unspecified", TRUE,
                              <<Parameter("y", "N")>>), "matches i32<N>")

ReasonCatalogue == {W123, W123Again, MatchNamedX, MatchNamedY}

ReasonConstrain(r, c) ==
    ConstrainStep(r, c, MaxConstraints, TRUE) /\ UNCHANGED <<coversLog, call>>

NextReason ==
    \/ \E r \in MergeRefs : \E c \in ReasonCatalogue : ReasonConstrain(r, c)
    \/ \E r \in MergeRefs : LogCheckUpdates(r)

SpecReason == Init /\ [][NextReason]_vars

(***************************************************************************)
(* SpecMatch: the nullability metavariable N and the parameter             *)
(* metavariable A are narrowed, and patterns over them are matched against *)
(* concrete types; coversLog keeps the last query and its answer.          *)
(***************************************************************************)
MatchRefs == {"N", "A"}

\* The patterns whose metavariables are N and A.
MatchPatterns ==
    {p \in PatternUniverse :
       /\ p.nullable \in {NoRef, "N"}
       /\ \A i \in 1..Len(p.parameters.list) :
            p.parameters.list[i].value = "A"}

\* The concrete types matched: of a variation patterns name, or of none.
MatchTypes == {t \in TypeUniverse : t.variation \in {"base", "v2"}}

MatchConstrain(r, c) ==
    /\ ConstrainStep(r, c, CoversCap, FALSE)
    /\ coversLog' = NoQuery
    /\ UNCHANGED call

\* Pattern::matches(p, t) on the current value sets, once between two
\* constrain calls
QueryMatches(p, t) ==
    /\ ~panicked
    /\ coversLog.answer = None
    /\ coversLog' = [self |-> p, other |-> t,
                     answer |-> OptBool(Pattern_matches(Heap, p, t))]
    /\ UNCHANGED <<solver, reference, context, walk, refAlias, aliasData, data, applied,
                   submitted, equated, panicked, lastOp, call>>

NextMatch ==
    \/ \E r \in MatchRefs : \E c \in PatCatalogue(r) : MatchConstrain(r, c)
    \/ \E p \in MatchPatterns : \E t \in MatchTypes : QueryMatches(p, t)

SpecMatch == Init /\ [][NextMatch]_vars

(***************************************************************************)
(* SpecTree: a root parser pushes the fields of the root message in any    *)
(* order and with any content, then the finished tree is iterated over.    *)
(* The iterators borrow the tree, so nothing is pushed once they exist.    *)
(***************************************************************************)

TreeFrame ==
    UNCHANGED <<reference, refAlias, aliasData, data, applied, submitted,
                equated, lastOp, coversLog, solver, call>>

\* The effect of one push call on the root context: a panic leaves the
\* context as it was.
Pushed(r, field_name) ==
    /\ panicked' = (r.status = "panic")
    /\ context' = IF r.status = "panic"
                  THEN context
                  ELSE [r.context EXCEPT !.handled[field_name] = @ + 1]
    /\ UNCHANGED walk
    /\ TreeFrame

PushProtoField(field_name, field, validator_fails) ==
    /\ ~panicked
    /\ walk.phase = "idle"
    /\ Pushed(Push_proto_field(context, field, field_name, FALSE,
                               validator_fails), field_name)

PushProtoRequiredField(field_name, field, validator_fails) ==
    /\ ~panicked
    /\ walk.phase = "idle"
    /\ Pushed(Push_proto_required_field(context, field, field_name, FALSE,
                                        validator_fails), field_name)

PushProtoRepeatedField(field_name, fields, validator_fails) ==
    /\ ~panicked
    /\ walk.phase = "idle"
    /\ Pushed(Push_proto_repeated_field(context, fields, field_name, FALSE,
                                        validator_fails), field_name)

\* Some push function is called for the field name.
PushNamed(field_name) ==
    \/ \E field \in FieldInputs, validator_fails \in BOOLEAN :
           \/ PushProtoField(field_name, field, validator_fails)
           \/ PushProtoRequiredField(field_name, field, validator_fails)
    \/ \E fields \in RepeatedInputs :
           PushProtoRepeatedField(field_name, fields, FALSE)

\* iter_flattened_nodes() on the root of the finished tree.
IterFlattenedNodes ==
    /\ ~panicked
    /\ walk.phase = "idle"
    /\ walk' = [walk EXCEPT !.phase = "nodes",
                            !.nodeRemaining = Iter_flattened_nodes(context.output)]
    /\ UNCHANGED <<context, panicked>>
    /\ TreeFrame

\* One next() of the node iterator that yields a node.
FlattenedNodeIterNext ==
    /\ walk.phase = "nodes"
    /\ walk.nodeRemaining # <<>>
    /\ LET step == FlattenedNodeIter_next(walk.nodeRemaining)
       IN  walk' = [walk EXCEPT !.nodeRemaining = step.remaining,
                                !.nodes = Append(@, step.item)]
    /\ UNCHANGED <<context, panicked>>
    /\ TreeFrame

\* iter_diagnostics() on the root, once the node iterator is exhausted: the
\* node data iterator with a filter on top.
IterFlattenedNodeData ==
    /\ walk.phase = "nodes"
    /\ walk.nodeRemaining = <<>>
    /\ walk' = [walk EXCEPT !.phase = "data",
                            !.dataRemaining = Iter_flattened_node_data(context.output)]
    /\ UNCHANGED <<context, panicked>>
    /\ TreeFrame

\* One next() of the node data iterator that yields a datum; the filter of
\* iter_diagnostics lets the diagnostics through.
FlattenedNodeDataIterNext ==
    /\ walk.phase = "data"
    /\ walk.dataRemaining # <<>>
    /\ LET step == FlattenedNodeDataIter_next(walk.dataRemaining)
       IN  walk' = [walk EXCEPT !.dataRemaining = step.remaining,
                                !.yielded = Append(@, step.item),
                                !.diagnostics = IF IsDiagnostic(step.item)
                                                THEN Append(@, step.item)
                                                ELSE @]
    /\ UNCHANGED <<context, panicked>>
    /\ TreeFrame

NextTree ==
    \/ \E field_name \in FieldNames : PushNamed(field_name)
    \/ IterFlattenedNodes
    \/ FlattenedNodeIterNext
    \/ IterFlattenedNodeData
    \/ FlattenedNodeDataIterNext

SpecTree == Init /\ [][NextTree]_vars

(***************************************************************************)
(* Claims.                                                                 *)
(***************************************************************************)
\* C1: after constrain_equal(a, b) on references with distinct data blocks,
\* every live alias that pointed at b's data block points at a's data block,
\* and the aliases of a and b refer to the same data block.
C1_AliasesRedirected ==
    [][\A a \in Refs : \A b \in Refs :
         (/\ BlockOf(a) # BlockOf(b)
          /\ ConstrainEqualStep(a, b, FALSE)
          /\ ~panicked')
         => /\ \A x \in AliasIds :
                 (AliasLive(Heap, x) /\ aliasData[x] = BlockOf(b))
                 => aliasData'[x] = BlockOf(a)
            /\ aliasData'[refAlias'[a]] = aliasData'[refAlias'[b]]]_vars

\* C2: once constrain_equal(a, b) has succeeded, a and b observe the same
\* value set in every later state, and it is the intersection of the
\* admissible sets of all constraints applied through either reference.
C2_EquatedAgree ==
    \A pair \in equated : \A a \in pair : \A b \in pair :
       /\ Reference_value(Heap, a) = Reference_value(Heap, b)
       /\ \A v \in ValueUniverse :
            /\ Reference_matches(Heap, a, v) = Reference_matches(Heap, b, v)
            /\ Reference_matches(Heap, a, v)
                 <=> InAll(UNION {submitted[r] : r \in pair}, v)

\* C3: the value set of a data block is the intersection of the admissible
\* sets of the constraints applied to it, whatever the order of application.
C3_OrderIndependent ==
    \A d \in DataIds :
       /\ \A v \in ValueUniverse : Data_matches(Heap, d, v) <=> InAll(applied[d], v)
       /\ data[d].values = ApplyInOrder(Set_full, applied[d], 1)

C3_Witness ==
    \E d \in DataIds :
       /\ data[d].constraints = <<W234, W123>>
       /\ applied[d] = {W123, W234}
       /\ data[d].values = Set_from_integer({2, 3})

C4_DuplicateIsNoOp ==
    [][\A r \in MergeRefs : \A c \in LogCatalogue :
         (/\ HasConstraint(data[BlockOf(r)], c)
          /\ ConstrainStep(r, c, MaxConstraints, TRUE))
         => /\ data'[BlockOf(r)].constraints = data[BlockOf(r)].constraints
            /\ data'[BlockOf(r)].values = data[BlockOf(r)].values
            /\ data'[BlockOf(r)].updated = data[BlockOf(r)].updated
            /\ lastOp'.status = "Ok"
            /\ ~panicked']_vars

C4_Witness ==
    /\ lastOp = Op("constrain", "Ok", FALSE)
    /\ ~panicked
    /\ \E r \in MergeRefs :
         /\ data[BlockOf(r)].complete
         /\ ~data[BlockOf(r)].updated
         /\ Len(data[BlockOf(r)].constraints) = MaxConstraints

\* A reference of the scope reaches the data block d.
Referenced(d) == \E r \in Refs : BlockOf(r) = d

\* C5: for two incomplete data blocks a and b, merge_with(a, b) and
\* merge_with(b, a) leave surviving blocks with the same set of constraints,
\* the union of both lists, and the same value set, the intersection of both
\* value sets.
C5_MergeCommutes ==
    \A a \in DataIds : \A b \in DataIds :
       (/\ a # b
        /\ Referenced(a) /\ Referenced(b)
        /\ ~data[a].complete /\ ~data[b].complete)
       => LET ab == Data_merge_with(Heap, a, b).heap.data[a]
              ba == Data_merge_with(Heap, b, a).heap.data[b]
              constraintsOf(d) ==
                  {d.constraints[i] : i \in 1..Len(d.constraints)}
          IN  /\ constraintsOf(ab) = constraintsOf(ba)
              /\ constraintsOf(ab) = ConstraintsOf(a) \cup ConstraintsOf(b)
              /\ ab.values = ba.values
              /\ \A v \in ValueUniverse :
                   Set_contains(Heap, ab.values, v)
                     <=> (Data_matches(Heap, a, v) /\ Data_matches(Heap, b, v))

\* C6: once Data::covers(a, b) has given a definite answer, no later state
\* reached by constrain, merge or mark_complete makes Data::covers(a, b) give
\* the opposite definite answer, nor makes the set-level superset_of answer
\* the opposite of the answer given.
C6_CoversNeverContradicted ==
    coversLog.answer # None
    => LET a == coversLog.self
           b == coversLog.other
       IN  /\ Data_covers(Heap, a, b) \in {coversLog.answer, None}
           /\ Set_superset_of(Heap, data[a].values, data[b].values)
                \in {coversLog.answer, None}

\* C7: whenever Pattern::covers(P1, P2) is definitely true, every concrete
\* type that matches P2 matches P1.
C7_CoverSound ==
    \A P1 \in PatternUniverse : \A P2 \in PatternUniverse :
       Pattern_covers(Heap, P1, P2) = SomeTrue => SemanticallyCovers(P1, P2)

\* C9: when P1 and P2 each intersect Q, neither covers Q, and every type
\* matching Q matches P1 or P2, DataType::superset_of({P1, P2}, {Q}) returns
\* unknown.
C9_UnionCoverIsUnknown ==
    \A P1 \in SetPatterns : \A P2 \in SetPatterns : \A Q \in SetPatterns :
       (/\ P1 # P2
        /\ Pattern_intersects_with(Heap, P1, Q)
        /\ Pattern_intersects_with(Heap, P2, Q)
        /\ Pattern_covers(Heap, P1, Q) = SomeFalse
        /\ Pattern_covers(Heap, P2, Q) = SomeFalse
        /\ ~SemanticallyCovers(P1, Q)
        /\ ~SemanticallyCovers(P2, Q)
        /\ \A t \in TypeUniverse :
             Pattern_matches(Heap, Q, t)
             => (Pattern_matches(Heap, P1, t) \/ Pattern_matches(Heap, P2, t)))
       => DataType_superset_of(Heap, DataType_some(<<P1, P2>>),
                               DataType_some(<<Q>>)) = None

\* Pattern lists of self in C10: one pattern, or two different ones.
PatternLists ==
    {<<p>> : p \in SetPatterns}
    \cup {pq \in SetPatterns \X SetPatterns : pq[1] # pq[2]}

\* The indices of the patterns of xs that intersect y.
Intersecting(xs, y) ==
    {i \in 1..Len(xs) : Pattern_intersects_with(Heap, xs[i], y)}

\* C10: DataType::superset_of on non-empty pattern lists is definitely true
\* only if every y is intersected by exactly one x and that x covers y; it
\* is unknown if some y is intersected by more than one x, and unknown if
\* the single x intersecting y has covers(y) unknown.
C10_SupersetCases ==
    \A xs \in PatternLists : \A y \in SetPatterns :
       LET result == DataType_superset_of(Heap, DataType_some(xs),
                                          DataType_some(<<y>>))
           hits == Intersecting(xs, y)
       IN  /\ result = SomeTrue
                => /\ Cardinality(hits) = 1
                   /\ \A i \in hits :
                        Pattern_covers(Heap, xs[i], y) = SomeTrue
           /\ Cardinality(hits) > 1 => result = None
           /\ (/\ Cardinality(hits) = 1
               /\ \A i \in hits : Pattern_covers(Heap, xs[i], y) = None)
                => result = None

\* Patterns of the data-type partition of the sets C11 ranges over.
ValuePatterns ==
    {p \in PatternUniverse :
       /\ p.class = "i32"
       /\ p.nullable # NoRef
       /\ p.variation \in {"unspecified", "base"}
       /\ p.parameters.specified
       /\ p.parameters.list = <<>>}

\* Data-type partitions: empty, everything, one pattern, two different ones.
DataTypeUniverse ==
    {DataType_empty, DataType_full}
    \cup {DataType_some(<<p>>) : p \in ValuePatterns}
    \cup {DataType_some(pq) :
            pq \in {x \in ValuePatterns \X ValuePatterns : x[1] # x[2]}}

SetUniverse ==
    {[booleans |-> b, integers |-> i, data_types |-> d] :
       b \in {None, SomeTrue, SomeFalse, All},
       i \in {{}, {1}, {1, 2}},
       d \in DataTypeUniverse}

\* The values of the universe that Set::contains admits for s.
SetValues(s) == {v \in ValueUniverse : Set_contains(Heap, s, v)}

\* C11: Set::value returns a value exactly when the set contains exactly one
\* value, and then the set contains that value and no other value of any
\* metatype.
C11_ValueIffSingleton ==
    \A s \in SetUniverse :
       LET v == Set_value(Heap, s)
       IN  /\ v # NoValue <=> Cardinality(SetValues(s)) = 1
           /\ v # NoValue => SetValues(s) = {v}

\* C12: when constrain(c) makes the non-empty value set of a data block
\* empty, the OverConstrained error names constraints W of the block such
\* that c is in W, W is unsatisfiable, and W without any one of its
\* constraints is satisfiable.
C12_MinimalWitness ==
    \A r \in MergeRefs : \A i \in 1..Len(AllConstraints) :
       LET c == AllConstraints[i]
           res == Data_constrain(data[BlockOf(r)], c)
           W == OverConstrainedWitness(res.data)
       IN  (/\ res.new
            /\ res.status = "OverConstrained"
            /\ ~Set_is_empty(data[BlockOf(r)].values))
           => /\ \E k \in 1..Len(W) : W[k] = c
              /\ \A k \in 1..Len(W) : HasConstraint(res.data, W[k])
              /\ Unsatisfiable(W)
              /\ \A k \in 1..Len(W) : ~Unsatisfiable(DropAt(W, k))

\* C13: when constrain(c) leaves the value set of a data block empty, c is
\* in the constraint list of the block afterwards, a later constrain on the
\* block yields a value set inside the admissible set of c, and a repeated
\* constrain(c) changes nothing and records nothing.
C13_OffenderRetained ==
    [][\A r \in MergeRefs : \A c \in LogCatalogue :
         (/\ ConstrainStep(r, c, MaxConstraints, TRUE)
          /\ lastOp'.status = "OverConstrained")
         => LET after == data'[BlockOf(r)]
            IN  /\ HasConstraint(after, c)
                /\ Set_is_empty(after.values)
                /\ Data_constrain(after, c) =
                      [data |-> after, status |-> "Ok", new |-> FALSE]
                /\ \A i \in 1..Len(AllConstraints) :
                      LET later == Data_constrain(after, AllConstraints[i])
                      IN  /\ HasConstraint(later.data, c)
                          /\ Set_superset_of(Heap, Admissible(c),
                                             later.data.values) = SomeTrue]_vars

C13_Witness ==
    /\ lastOp = Op("constrain", "OverConstrained", TRUE)
    /\ \E r \in MergeRefs :
         /\ Set_is_empty(data[BlockOf(r)].values)
         /\ HasConstraint(data[BlockOf(r)], W4)
         /\ HasConstraint(data[BlockOf(r)], W123)

\* C14: constrain and constrain_equal on a reference that is not bound
\* (either argument of constrain_equal) fail and leave every alias block and
\* data block as it was; value() of an unbound reference is none and
\* matches(v) is true for every value v.
C14_UnboundRejected ==
    [][/\ \A r \in MergeRefs : \A c \in BindCatalogue :
            (refAlias[r] = NoAlias /\ BindConstrain(r, c))
            => /\ lastOp'.status = "Panic"
               /\ UNCHANGED <<refAlias, aliasData, data>>
       /\ \A a \in MergeRefs : \A b \in MergeRefs :
            (/\ refAlias[a] = NoAlias \/ refAlias[b] = NoAlias
             /\ LogConstrainEqual(a, b))
            => /\ lastOp'.status = "Panic"
               /\ UNCHANGED <<refAlias, aliasData, data>>
       /\ \A r \in Refs :
            /\ refAlias[r] = NoAlias
               => /\ Reference_value(Heap, r) = NoValue
                  /\ \A v \in ValueUniverse : Reference_matches(Heap, r, v)
            /\ refAlias'[r] = NoAlias
               => /\ Reference_value(Heap', r) = NoValue
                  /\ \A v \in ValueUniverse : Reference_matches(Heap', r, v)
      ]_vars

C14_Witness ==
    /\ lastOp = Op("constrain_equal", "Panic", FALSE)
    /\ panicked
    /\ \E a \in MergeRefs : \E b \in MergeRefs :
         /\ refAlias[a] = NoAlias
         /\ refAlias[b] # NoAlias
         /\ Len(data[BlockOf(b)].constraints) > 0

\* Two names are equal up to the case of their ASCII letters.
EqualIgnoringAsciiCase(n, m) ==
    /\ Len(n) = Len(m)
    /\ \A i \in 1..Len(n) :
         \/ n[i] = m[i]
         \/ \E k \in 1..Len(UpperCase) :
              {n[i], m[i]} = {UpperCase[k], LowerCase[k]}

\* C15: bind leaves the reference bound; a generic reference gets the alias
\* block (hence the data block) of every bound generic reference whose name
\* is equal up to ASCII case; binding a bound reference again changes no
\* alias or data block; bound references whose names differ after folding
\* have distinct alias blocks, and distinct data blocks as long as no
\* constrain_equal has merged data blocks.
C15_BindFoldsCase ==
    [][\A r \in BindRefs :
         Bind(r)
         => /\ refAlias'[r] # NoAlias
            /\ refAlias[r] # NoAlias
               => UNCHANGED <<refAlias, aliasData, data>>
            /\ \A q \in BindRefs \ {r} :
                 refAlias'[q] # NoAlias
                 => IF EqualIgnoringAsciiCase(reference[q].description,
                                              reference[r].description)
                    THEN /\ refAlias'[r] = refAlias'[q]
                         /\ aliasData'[refAlias'[r]] = aliasData'[refAlias'[q]]
                    ELSE /\ refAlias'[r] # refAlias'[q]
                         /\ equated = {}
                            => aliasData'[refAlias'[r]]
                                  # aliasData'[refAlias'[q]]
      ]_vars

C15_Witness ==
    /\ lastOp = Op("bind", "Ok", TRUE)
    /\ refAlias["A"] # NoAlias
    /\ refAlias["A"] = refAlias["B"]
    /\ reference["A"].description # reference["B"].description
    /\ refAlias["C"] # NoAlias
    /\ refAlias["C"] # refAlias["A"]

\* C16: when the solver loop has ended, the outcome is Resolved exactly when
\* every data block has a value set of one value, Contradiction exactly when
\* some data block has an empty value set, and Underdetermined otherwise;
\* with Underdetermined every block is complete and the report lists every
\* unresolved variable with its remaining set.
C16_OutcomeClassifies ==
    solver.phase = "done"
    => LET single == \A d \in ScopeBlocks :
                        Cardinality(SetValues(data[d].values)) = 1
           empty == \E d \in ScopeBlocks : SetValues(data[d].values) = {}
       IN  /\ solver.outcome = "Resolved" <=> single
           /\ solver.outcome = "Contradiction" <=> empty
           /\ solver.outcome = "Underdetermined" <=> ~single /\ ~empty
           /\ solver.outcome = "Underdetermined"
              => /\ \A d \in ScopeBlocks : Data_is_complete(data[d])
                 /\ solver.report =
                      {[variable |-> d, remaining |-> data[d].values] :
                         d \in {x \in ScopeBlocks :
                                  Cardinality(SetValues(data[x].values)) # 1}}

\* The number of values the data blocks of the scope still admit.
RECURSIVE SumValues(_)
SumValues(S) ==
    IF S = {} THEN 0
    ELSE LET d == CHOOSE x \in S : TRUE
         IN  Cardinality(SetValues(data[d].values)) + SumValues(S \ {d})

TotalValues == SumValues(DataIds)

\* C17: the worklist fixpoint terminates: every iteration of the loop either
\* strictly shrinks the value set of some data block or shortens the
\* worklist without growing any value set; an iteration that enqueues a
\* block strictly shrinks at least one value set; and when the loop has ended
\* no data block of the scope has its updated flag set.
C17_FixpointTerminates ==
    [][/\ SolveStep
          => /\ \/ TotalValues' < TotalValues
                \/ /\ TotalValues' = TotalValues
                   /\ Len(solver'.worklist) < Len(solver.worklist)
             /\ Len(solver'.worklist) >= Len(solver.worklist)
                => \E d \in DataIds :
                     /\ (SetValues(data[d].values))' \subseteq
                           SetValues(data[d].values)
                     /\ (SetValues(data[d].values))' #
                           SetValues(data[d].values)
       /\ solver'.phase = "done"
          => \A d \in ScopeBlocks : ~data'[d].updated]_vars

C17_Witness ==
    /\ solver.phase = "done"
    /\ \A d \in ScopeBlocks : ~data[d].updated
    /\ \E d \in ScopeBlocks :
         /\ ~(ConstraintsOf(d) \subseteq applied[d])
         /\ ~Set_is_empty(data[d].values)

C19_CompleteIsLatched ==
    [][/\ \A d \in DataIds :
            data[d].complete
            => /\ data'[d].complete
               /\ data'[d].constraints = data[d].constraints
               /\ data'[d].values = data[d].values
       /\ \A r \in MergeRefs :
            (data[BlockOf(r)].complete /\ LogMarkComplete(r))
            => UNCHANGED <<refAlias, aliasData, data>>
       /\ \A r \in MergeRefs : \A c \in LogCatalogue :
            (data[BlockOf(r)].complete /\ LogConstrain(r, c))
            => /\ UNCHANGED <<refAlias, aliasData, data>>
               /\ lastOp'.status =
                    IF HasConstraint(data[BlockOf(r)], c) THEN "Ok"
                    ELSE "Panic"
       /\ \A a \in MergeRefs : \A b \in MergeRefs :
            (/\ data[BlockOf(a)].complete \/ data[BlockOf(b)].complete
             /\ BlockOf(a) # BlockOf(b)
             /\ LogConstrainEqual(a, b))
            => /\ UNCHANGED <<refAlias, aliasData, data>>
               /\ lastOp'.status = "Panic"]_vars

C19_Witness ==
    /\ lastOp = Op("constrain_equal", "Panic", FALSE)
    /\ panicked
    /\ \E a \in MergeRefs : \E b \in MergeRefs :
         /\ data[BlockOf(a)].complete
         /\ ~data[BlockOf(b)].complete
         /\ Len(data[BlockOf(a)].constraints) > 0
         /\ Len(data[BlockOf(b)].constraints) > 0

\* C20: check_updates() returns true exactly when a constraint the block did
\* not hold was recorded in it, by constrain or by the replay of merge_with,
\* since the previous check_updates() on the block or since its creation:
\* the updated flag is set by every step that records a new constraint in
\* the block, is returned and cleared by check_updates(), and is left alone
\* by every other step.
C20_CheckUpdatesReportsNew ==
    [][/\ \A d \in DataIds :
            IF ~(ConstraintsOf(d)' \subseteq ConstraintsOf(d))
            THEN data'[d].updated
            ELSE (\A r \in MergeRefs : ~(LogCheckUpdates(r) /\ BlockOf(r) = d))
                 => data'[d].updated = data[d].updated
       /\ \A r \in MergeRefs :
            LogCheckUpdates(r)
            => /\ lastOp'.new = data[BlockOf(r)].updated
               /\ ~data'[BlockOf(r)].updated
               /\ Data_check_updates(data'[BlockOf(r)]).result = FALSE]_vars

C20_Witness ==
    /\ lastOp = Op("check_updates", "Ok", FALSE)
    /\ \E r \in MergeRefs :
         /\ Len(data[BlockOf(r)].constraints) = MaxConstraints
         /\ ~data[BlockOf(r)].updated
         /\ data[BlockOf(r)].aliases # <<refAlias[r]>>

\* C21: constrain_equal(a, b) on references bound to the identical alias
\* block, or to different alias blocks that point at the same data block,
\* returns normally and leaves every alias block and every data block as it
\* was (constraint lists, value sets, alias lists, updated and complete
\* flags), whether or not that data block is complete.
C21_SameBlockIsNoOp ==
    [][\A a \in MergeRefs : \A b \in MergeRefs :
         (/\ refAlias[a] # NoAlias
          /\ refAlias[b] # NoAlias
          /\ refAlias[a] = refAlias[b] \/ BlockOf(a) = BlockOf(b)
          /\ LogConstrainEqual(a, b))
         => /\ UNCHANGED <<refAlias, aliasData, data>>
            /\ lastOp'.status = "Ok"
            /\ ~panicked']_vars

C21_Witness ==
    /\ lastOp = Op("constrain_equal", "Ok", FALSE)
    /\ ~panicked
    /\ \E a \in MergeRefs : \E b \in MergeRefs :
         /\ refAlias[a] # refAlias[b]
         /\ BlockOf(a) = BlockOf(b)
         /\ data[BlockOf(a)].complete
         /\ data[BlockOf(a)].updated
         /\ Len(data[BlockOf(a)].constraints) > 0

\* The results of the sub-queries Pattern::covers(self, other) is made of:
\* the covers query on the nullability metavariables when both patterns have
\* one, and the element-wise covers queries on the parameter packs when both
\* are specified.
SubQueries(h, self, other) ==
    (IF self.nullable # NoRef /\ other.nullable # NoRef
     THEN {Reference_covers(h, self.nullable, other.nullable)}
     ELSE {})
    \cup
    (IF self.parameters.specified /\ other.parameters.specified
     THEN {Reference_covers(h, self.parameters.list[i].value,
                            other.parameters.list[i].value) :
             i \in (1..Len(self.parameters.list))
                   \cap (1..Len(other.parameters.list))}
     ELSE {})

\* The checks of Pattern::covers(self, other) that query no metavariable
\* pass: whatever self specifies, other specifies alike.
StructurallyCovers(self, other) ==
    /\ self.class = other.class
    /\ self.nullable # NoRef => other.nullable # NoRef
    /\ self.variation # "unspecified" => other.variation = self.variation
    /\ self.parameters.specified
         => /\ other.parameters.specified
            /\ Len(other.parameters.list) = Len(self.parameters.list)

\* C22: for patterns of equal class whose other checks pass, Pattern::covers
\* is unknown whenever one of its sub-queries is unknown, also when another
\* sub-query is false; when no sub-query is unknown it is the conjunction of
\* the sub-queries.
C22_UnknownDominates ==
    \A P1 \in PatternUniverse : \A P2 \in PatternUniverse :
       StructurallyCovers(P1, P2)
       => LET subs == SubQueries(Heap, P1, P2)
              result == Pattern_covers(Heap, P1, P2)
          IN  IF None \in subs
              THEN result = None
              ELSE result = OptBool(subs \subseteq {SomeTrue})

\* The values of the universe that the metavariable r can still take; every
\* value for an unbound reference.
Possible(r) ==
    IF refAlias[r] = NoAlias THEN ValueUniverse
    ELSE SetValues(data[BlockOf(r)].values)

\* Pattern p with every parameter of its pack named name.
Renamed(p, name) ==
    [p EXCEPT !.parameters.list =
       [i \in 1..Len(p.parameters.list) |->
          Parameter(name, p.parameters.list[i].value)]]

\* C23: Pattern::matches(P, T) is true exactly when the classes are equal,
\* the nullability metavariable of P is absent, has no single value yet or
\* has the nullability of T as its value, the variation of P is unspecified
\* or that of T, and the parameter pack of P is unspecified or as long as
\* that of T with every parameter of T a possible value of the metavariable
\* at its position; the names of the parameters of P make no difference.
C23_MatchesIff ==
    coversLog.answer # None
    => LET P == coversLog.self
           T == coversLog.other
       IN  /\ coversLog.answer = SomeTrue
              <=> /\ P.class = T.class
                  /\ \/ P.nullable = NoRef
                     \/ Cardinality(Possible(P.nullable)) # 1
                     \/ Possible(P.nullable) = {BoolValue(T.nullable)}
                  /\ P.variation = "unspecified" \/ P.variation = T.variation
                  /\ \/ ~P.parameters.specified
                     \/ /\ Len(P.parameters.list) = Len(T.parameters)
                        /\ \A i \in 1..Len(T.parameters) :
                             IntValue(T.parameters[i].v)
                               \in Possible(P.parameters.list[i].value)
           /\ OptBool(Pattern_matches(Heap, Renamed(P, "x"), T))
                = coversLog.answer

C23_Witness ==
    /\ coversLog.answer # None
    /\ coversLog.answer = SomeTrue
    /\ Possible("N") = {BoolValue(TRUE)}
    /\ Possible("A") = {IntValue(4)}
    /\ coversLog.self.nullable = "N"
    /\ coversLog.self.variation # "unspecified"
    /\ coversLog.self.parameters.specified
    /\ Len(coversLog.self.parameters.list) = 1
    /\ LET P == coversLog.self
           T == coversLog.other
       IN  /\ ~Pattern_matches(Heap, P, [T EXCEPT !.nullable = FALSE])
           /\ ~Pattern_matches(Heap, P, [T EXCEPT !.parameters = <<>>])
           /\ ~Pattern_matches(Heap, P, [T EXCEPT !.variation = "v2"])

\* C24: DataType::intersects_with gives the same answer with its arguments
\* exchanged, and answers true only for two non-empty sets; with the empty
\* set on either side, the universal set on the other side included, it
\* answers false.
C24_IntersectsSymmetric ==
    \A s \in DataTypeUniverse : \A o \in DataTypeUniverse :
       /\ DataType_intersects_with(Heap, s, o)
            = DataType_intersects_with(Heap, o, s)
       /\ DataType_intersects_with(Heap, s, o)
            => ~DataType_is_empty(s) /\ ~DataType_is_empty(o)

C26_NoBorrowConflict ==
    /\ ~call.conflict
    /\ call.aliasMut \cap call.aliasBorrows = {}
    /\ call.pc \in {"merge_aliases", "merge_constrain"}
         => /\ call.dataBorrows = {BlockOf(call.self), BlockOf(call.other)}
            /\ BlockOf(call.self) # BlockOf(call.other)
    /\ call.pc = "idle" => call.aliasBorrows = {} /\ call.dataBorrows = {}

C26_Witness ==
    /\ call.pc = "merge_constrain"
    /\ ~call.conflict
    /\ refAlias[call.other] \in call.aliasMut
    /\ Cardinality(call.aliasMut) = 2
    /\ Cardinality(call.dataBorrows) = 2
    /\ Len(data[BlockOf(call.other)].constraints) > 0

\* C27: DataType::superset_of gives the same three-valued answer when the
\* patterns of self, or those of other, are listed in the other order.
C27_SupersetOrderFree ==
    \A xs \in PatternLists : \A ys \in PatternLists :
       LET result == DataType_superset_of(Heap, DataType_some(xs),
                                          DataType_some(ys))
       IN  /\ Len(xs) = 2
              => DataType_superset_of(Heap, DataType_some(<<xs[2], xs[1]>>),
                                      DataType_some(ys)) = result
           /\ Len(ys) = 2
              => DataType_superset_of(Heap, DataType_some(xs),
                                      DataType_some(<<ys[2], ys[1]>>)) = result

\* C28: Data::constrain compares the data and the reason of the constraint
\* with the recorded ones: a constraint that equals a recorded one in both
\* leaves the block as it was; any other constraint, one that shares its
\* data with a recorded constraint of another reason included, is appended
\* and sets the updated flag; no constraint list holds two equal entries.
C28_DedupByDataAndReason ==
    [][/\ \A r \in MergeRefs : \A c \in ReasonCatalogue :
            (ReasonConstrain(r, c) /\ ~panicked')
            => LET before == data[BlockOf(r)]
                   after == data'[BlockOf(r)]
               IN  IF \E i \in 1..Len(before.constraints) :
                        Constraint_eq(before.constraints[i], c)
                   THEN after = before
                   ELSE /\ after.constraints = Append(before.constraints, c)
                        /\ after.updated
       /\ \A d \in DataIds :
            \A i \in 1..Len(data'[d].constraints) :
               \A j \in 1..Len(data'[d].constraints) :
                  Constraint_eq(data'[d].constraints[i],
                                data'[d].constraints[j]) => i = j]_vars

C28_Witness ==
    /\ lastOp = Op("constrain", "Ok", TRUE)
    /\ \E r \in MergeRefs :
         /\ data[BlockOf(r)].constraints = <<W123, W123Again>>
         /\ data[BlockOf(r)].updated
         /\ W123.data = W123Again.data
         /\ W123.reason # W123Again.reason

RECURSIVE PreOrder(_), PreOrderOfData(_), FlattenedData(_)

\* The nodes of a tree depth-first in pre-order, children in definition
\* order.
PreOrder(node) == <<node>> \o PreOrderOfData(node.data)

PreOrderOfData(node_data) ==
    IF node_data = <<>>
    THEN <<>>
    ELSE (IF IsChild(Head(node_data))
          THEN PreOrder(Head(node_data).node)
          ELSE <<>>) \o PreOrderOfData(Tail(node_data))

\* The node data of a tree in definition order, each Child followed at once
\* by the flattened data of its node.
FlattenedData(node_data) ==
    IF node_data = <<>>
    THEN <<>>
    ELSE <<Head(node_data)>>
         \o (IF IsChild(Head(node_data))
             THEN FlattenedData(Head(node_data).node.data)
             ELSE <<>>)
         \o FlattenedData(Tail(node_data))

IsPrefix(s, t) == Len(s) <= Len(t) /\ s = SubSeq(t, 1, Len(s))

\* C29: iter_flattened_nodes yields the nodes of the tree exactly once each,
\* depth-first in pre-order with children in definition order;
\* iter_flattened_node_data yields every node datum exactly once in
\* definition order, each Child followed at once by the flattened data of
\* its node; iter_diagnostics yields the diagnostics in that same order.
C29_FlattenedInDefinitionOrder ==
    LET nodes == PreOrder(context.output)
        node_data == FlattenedData(context.output.data)
    IN  /\ IsPrefix(walk.nodes, nodes)
        /\ (walk.phase = "data" => walk.nodes = nodes)
        /\ IsPrefix(walk.yielded, node_data)
        /\ (walk.phase = "data" /\ walk.dataRemaining = <<>>
                => walk.yielded = node_data)
        /\ walk.diagnostics = SelectSeq(walk.yielded, IsDiagnostic)

\* Both iterators are exhausted over a tree with nested children, several
\* children of the root and diagnostics at more than one depth.
C29_Witness ==
    /\ walk.phase = "data"
    /\ walk.dataRemaining = <<>>
    /\ Len(ChildNodes(context.output.data)) >= 2
    /\ Len(walk.nodes) >= 4
    /\ \E i \in 1..Len(walk.yielded) :
           /\ IsChild(walk.yielded[i])
           /\ \E j \in 1..Len(walk.yielded[i].node.data) :
                  IsDiagnostic(walk.yielded[i].node.data[j])
    /\ \E i \in 1..Len(context.output.data) :
           IsDiagnostic(context.output.data[i])
    /\ Len(walk.diagnostics) >= 2

\* C30: within one node's parsing context each field name is handled by
\* push_proto_field, push_proto_required_field or push_proto_repeated_field
\* at most once: a call for a name that an earlier call of the context
\* handled panics and pushes no child and no diagnostic, also when the
\* earlier call found the field unpopulated.
C30_FieldParsedOnce ==
    /\ [](\A n \in FieldNames : context.handled[n] <= 1)
    /\ [][\A n \in FieldNames :
              (context.handled[n] > 0 /\ PushNamed(n))
                  => (panicked' /\ context' = context)]_vars

\* A second call panicked after a first call that found the field
\* unpopulated and pushed nothing.
C30_Witness ==
    /\ panicked
    /\ context.output.data = <<>>
    /\ \E n \in FieldNames : context.handled[n] = 1

====
